---------------------------- MODULE Spec2Model ----------------------------
(***************************************************************************)
(* A state-machine model of the rendering kernel of the lightwave-based    *)
(* renderer: Instance::intersect / Instance::transmittance (the retry-loop *)
(* variant with stochastic alpha masking) and PathTracer::Li.              *)
(*                                                                         *)
(* Geometry is modelled along one ray.  The world ray starts at            *)
(* coordinate 0 and every distance is an integer number of length units;   *)
(* Epsilon is 4 of these units, so that distances below Epsilon exist.     *)
(* A transform is a uniform scale: worldLength = localLength * num / den.  *)
(* Random numbers and alpha values are multiples of 1/Quant.               *)
(***************************************************************************)
EXTENDS Integers, Naturals, Sequences, FiniteSets, TLC

VARIABLES
    \* ---- Instance (src/unnamed/part_004) ----
    m_shape,      \* the instance's shape: surfaces along the ray (local space)
    m_transform,  \* NoTransform or a scale record
    m_alpha,      \* NoAlpha or a map uv -> raw scalar of the alpha texture
    op,           \* which method the caller invoked
    tMaxArg,      \* the tMax argument of transmittance
    itsIn,        \* the caller's Intersection as it was before the call
    its,          \* the caller's Intersection object
    itsBackup,    \* local: const Intersection itsBackup = its
    tMaxWorld,    \* local: itsBackup.t
    tMaxLocal,    \* local of the transformed path
    tAccum,       \* local: tAccumWorld / tAccumLocal
    guard,        \* local: loop counter
    ipc,          \* position inside the call
    ret,          \* return value of Instance::intersect
    trResult,     \* return value of Instance::transmittance
    shapeCalls,   \* number of m_shape->intersect calls made by this call
    delegated,    \* whether m_shape->transmittance was called
    exitVia,      \* the return statement Instance::intersect left through
    lastU,        \* the last value rng.next() returned to acceptByAlpha
    \* ---- PathTracer (src/src/integrators/pathtracer.cpp, src/unnamed/part_002) ----
    variant,      \* which of the three versions of PathTracer::Li runs
    numLights,    \* number of non-background lights of the scene
    m_maxDepth,   \* member: the depth property
    m_neeFlag,    \* member: the nee property
    m_useNee,     \* member: m_neeFlag && m_scene->hasLights()
    L,            \* local: accumulated radiance, in units of 1/TrOne
    T,            \* local: path throughput
    b,            \* local: loop counter (bounce)
    hit,          \* local: its, the result of m_scene->intersect(ray, rng)
    s,            \* local: the DirectLightSample
    Tr,           \* local: transmittance of the shadow ray, in units of 1/TrOne
    ppc,          \* position inside Li
    calls,        \* the calls Li made so far to scene, light and BSDF, in order
    run,          \* 1: first execution, 2: execution repeated on the same inputs
    calls1,       \* the calls of the first execution
    result1,      \* the radiance the first execution returned
    \* ---- DirectIntegrator (src/src/lights/directional.cpp, src/src/integrators/direct.cpp) ----
    dVersion,     \* which of the two versions of DirectIntegrator::Li runs
    dLights,      \* number of non-background lights of the scene
    dIts,         \* local: its, the result of m_scene->intersect(ray, rng)
    result,       \* local: Color result, in units of 1/TrOne
    lightSample,  \* local: the LightSample
    directSample, \* local: the DirectLightSample
    transmittance,\* local: transmittance of the shadow ray, in units of 1/TrOne
    bsdfSample,   \* local: the BsdfSample
    dpc,          \* position inside DirectIntegrator::Li
    dcalls,       \* the calls Li made so far to scene, light and BSDF, in order
    \* ---- Shapes (src/src/shapes/sphere.cpp, src/unnamed/part_009, src/src/shapes/volume.cpp) ----
    sOp,          \* the method that is called
    sShape,       \* the members of the shape
    sRay,         \* the ray argument
    sTMax,        \* the tMax argument of transmittance
    sItsIn,       \* the caller's Intersection as it was before the call
    sIts,         \* the caller's Intersection object
    sU,           \* what rng.next() returns to Volume::intersect
    gotInterval,  \* what getInterval returned
    tEntry,       \* local of the volume: entry distance of getInterval
    tExit,        \* local of the volume: exit distance of getInterval
    tHit,         \* local of Volume::intersect
    sRet,         \* the return value
    spc,          \* "call" before the method ran, "done" after
    \* ---- Textures (src/unnamed/part_007) ----
    txOp,         \* the method that is called
    texture,      \* the members of the texture
    txUv,         \* the uv argument, in units of 1/UVDen
    txResult,     \* the Color returned
    fetched,      \* the texels asked of m_image->get, in order
    borderCalls,  \* the calls of applyBorderMode: coordinate, size, result
    tpc,          \* "call" before the method ran, "done" after
    \* ---- BSDFs (src/unnamed/part_005, src/unnamed/part_006, src/src/bsdfs/principled.cpp) ----
    bOp,          \* the method that is called
    bsdf,         \* the members of the BSDF: what its textures return at uv
    bWo,          \* the wo argument, a unit vector in units of 1/One
    bU,           \* what the first rng.next() of the call returns
    lobeValid,    \* whether the sampled lobe returns a valid BsdfSample
    bSample,      \* the BsdfSample returned
    bDrawn,       \* number of rng.next() calls made by the method itself
    bpc,          \* "call" before the method ran, "done" after
    \* ---- Two workers in PathTracer::Li (src/src/integrators/pathtracer.cpp) ----
    integrator,   \* shared: the members of the integrator and its scene
    frames,       \* per worker: the locals of its call of Li
    samplers,     \* the Sampler objects: the sequence and how much was drawn
    intersections \* the Intersection objects: what intersect wrote last

instVars == <<m_shape, m_transform, m_alpha, op, tMaxArg, itsIn, its,
              itsBackup, tMaxWorld, tMaxLocal, tAccum, guard, ipc, ret,
              trResult, shapeCalls, delegated, exitVia, lastU>>

ptVars == <<variant, numLights, m_maxDepth, m_neeFlag, m_useNee, L, T, b, hit,
            s, Tr, ppc, calls, run, calls1, result1>>

diVars == <<dVersion, dLights, dIts, result, lightSample, directSample,
            transmittance, bsdfSample, dpc, dcalls>>

shVars == <<sOp, sShape, sRay, sTMax, sItsIn, sIts, sU, gotInterval, tEntry,
            tExit, tHit, sRet, spc>>

txVars == <<txOp, texture, txUv, txResult, fetched, borderCalls, tpc>>

bsVars == <<bOp, bsdf, bWo, bU, lobeValid, bSample, bDrawn, bpc>>

cwVars == <<integrator, frames, samplers, intersections>>

\* the arguments and members of a call to a shape
shConfig == <<sOp, sShape, sRay, sTMax, sItsIn, sU>>

vars == <<instVars, ptVars, diVars, shVars, txVars, bsVars, cwVars>>

\* the variables outside each component
notInstVars == <<ptVars, diVars, shVars, txVars, bsVars, cwVars>>

notPtVars == <<instVars, diVars, shVars, txVars, bsVars, cwVars>>

notDiVars == <<instVars, ptVars, shVars, txVars, bsVars, cwVars>>

notShVars == <<instVars, ptVars, diVars, txVars, bsVars, cwVars>>

notTxVars == <<instVars, ptVars, diVars, shVars, bsVars, cwVars>>

notBsVars == <<instVars, ptVars, diVars, shVars, txVars, cwVars>>

notCwVars == <<instVars, ptVars, diVars, shVars, txVars, bsVars>>

-----------------------------------------------------------------------------
(* Numbers *)

\* Epsilon of the framework, in length units.
Epsilon == 4

\* std::numeric_limits<float>::infinity(): larger than every finite distance.
Infinity == 1000000

\* The retry cap of the alpha loop.
MaxRetries == 256

\* Random numbers are u / Quant for u in 0 .. Quant-1, alpha is a / Quant.
Quant == 2

\* Number of surfaces of the deep stack of coplanar transparent layers.
DeepStack == 258

Min(S) == CHOOSE x \in S : \A y \in S : x <= y

MaxOf(x, y) == IF x >= y THEN x ELSE y

\* a - b on floats with a possibly infinite
FSub(x, y) == IF x = Infinity THEN Infinity ELSE x - y

-----------------------------------------------------------------------------
(* Intersection records *)

\* A default constructed Intersection: a miss.
FreshIts ==
    [t |-> Infinity, position |-> 0, uv |-> 0, geometryNormal |-> "unset",
     shadingNormal |-> "unset", tangent |-> "unset", instance |-> "null",
     pdf |-> 0]

\* An Intersection holding an earlier hit of another instance at world t = w.
PrevHit(w) ==
    [t |-> w, position |-> w, uv |-> 1, geometryNormal |-> "prevN",
     shadingNormal |-> "prevN", tangent |-> "prevT", instance |-> "other",
     pdf |-> 2]

\* Intersection::operator bool
IsHit(i) == i.instance # "null"

-----------------------------------------------------------------------------
(* Shapes: surfaces at positions along the local ray *)

\* texture coordinates of the surfaces
UVs == {0, 1}

UVOf(p) == (p \div Epsilon) % Cardinality(UVs)

\* distance between the layers of a stack of coplanar transparent layers
StackGap == 2 * Epsilon

\* the surfaces of the shape at local coordinates >= lo, nearest first: the
\* coordinate of the nearest one, or -1
NearestFrom(shape, lo) ==
    IF shape.kind = "stack"
    THEN LET k0 == (lo + StackGap - 1) \div StackGap
             k  == IF k0 < 1 THEN 1 ELSE k0
         IN  IF k <= shape.count THEN k * StackGap ELSE -1
    ELSE LET S == {p \in shape.pos : p >= lo}
         IN  IF S = {} THEN -1 ELSE Min(S)

\* Shape::intersect(r, cand, rng) for a surface shape.  The shapes of the
\* repository report the nearest surface with Epsilon <= t, and t <= cand.t
\* (sphere, mesh) or t < cand.t (volume).
ShapeIntersect(shape, origin, cand) ==
    LET p  == NearestFrom(shape, origin + Epsilon)
        ok == /\ p # -1
              /\ IF shape.inclusive THEN p - origin <= cand.t
                                    ELSE p - origin < cand.t
    IN  IF ~ok
        THEN [hit |-> FALSE, its |-> cand]
        ELSE [hit |-> TRUE,
              its |-> [cand EXCEPT !.t = p - origin,
                                   !.position = p,
                                   !.uv = UVOf(p),
                                   !.geometryNormal = "localN",
                                   !.shadingNormal = "localN",
                                   !.tangent = "localT",
                                   !.pdf = 1]]

\* Shape::transmittance(ray, tMax, rng) of a surface shape: 1 if no opaque
\* surface lies within [Epsilon, tMax], else 0.
ShapeTransmittance(shape, tMax) ==
    LET p == NearestFrom(shape, Epsilon)
    IN  IF p # -1 /\ p <= tMax THEN 0 ELSE 1

-----------------------------------------------------------------------------
(* Transforms *)

NoTransform == [kind |-> "none", num |-> 1, den |-> 1]

\* length of a world-space segment after m_transform->inverse
ToLocal(xf, w) == IF w = Infinity THEN Infinity ELSE (w * xf.den) \div xf.num

\* length of a local-space segment after m_transform->apply
ToWorld(xf, l) == IF l = Infinity THEN Infinity ELSE (l * xf.num) \div xf.den

\* Instance::transformFrame
transformFrame(xf, surf) ==
    [surf EXCEPT !.geometryNormal = "worldN",
                 !.shadingNormal = "worldN",
                 !.position = ToWorld(xf, surf.position)]

-----------------------------------------------------------------------------
(* Alpha mask *)

NoAlpha == [kind |-> "none"]

\* std::clamp(a, 0.0f, 1.0f)
Clamp01(a) == IF a < 0 THEN 0 ELSE IF a > Quant THEN Quant ELSE a

\* the lambda acceptByAlpha, given the value u that rng.next() returns
acceptByAlpha(alpha, cand, u) ==
    IF alpha = NoAlpha THEN TRUE ELSE u <= Clamp01(alpha.map[cand.uv])

\* the values rng.next() can return, or a single stand-in when the lambda
\* returns before drawing
RngDraws(alpha) == IF alpha = NoAlpha THEN {0} ELSE 0 .. (Quant - 1)

-----------------------------------------------------------------------------
(* Inputs of the Instance model *)

\* small shapes: any subset of a few surface positions; 2 is nearer than
\* Epsilon, 4 is exactly Epsilon away from the ray origin
SurfacePositions == {2, 4, 8, 16}

Shapes ==
    [kind : {"surfaces"}, pos : SUBSET SurfacePositions, inclusive : BOOLEAN]
    \cup {[kind |-> "stack", count |-> DeepStack, inclusive |-> TRUE]}

Transforms ==
    {NoTransform,
     [kind |-> "scale", num |-> 1, den |-> 1],   \* identity matrix
     [kind |-> "scale", num |-> 1, den |-> 2],   \* instance shrunk to half size
     [kind |-> "scale", num |-> 2, den |-> 1]}   \* instance enlarged twice

\* raw scalars of the alpha texture, before the clamp
AlphaValues == {-1, 0, 1, Quant + 1}

AlphaMasks ==
    {NoAlpha} \cup {[kind |-> "mask", map |-> m] : m \in [UVs -> AlphaValues]}

\* world distances of an earlier hit recorded in the caller's Intersection
PrevTs == {4, 8, 16}

\* tMax arguments of transmittance
TMaxArgs == {8, 16, Infinity}

InstIdle ==
    /\ m_shape = [kind |-> "surfaces", pos |-> {}, inclusive |-> TRUE]
    /\ m_transform = NoTransform
    /\ m_alpha = NoAlpha
    /\ op = "none"
    /\ tMaxArg = 0
    /\ itsIn = FreshIts
    /\ its = FreshIts
    /\ itsBackup = FreshIts
    /\ tMaxWorld = 0
    /\ tMaxLocal = 0
    /\ tAccum = 0
    /\ guard = 0
    /\ ipc = "idle"
    /\ ret = FALSE
    /\ trResult = -1
    /\ shapeCalls = 0
    /\ delegated = FALSE
    /\ exitVia = "none"
    /\ lastU = -1

InstStart ==
    /\ m_shape \in Shapes
    /\ m_transform \in Transforms
    /\ m_alpha \in AlphaMasks
    /\ \/ /\ op = "intersect"
          /\ tMaxArg = 0
          /\ itsIn \in {FreshIts} \cup {PrevHit(w) : w \in PrevTs}
       \/ /\ op = "transmittance"
          /\ tMaxArg \in TMaxArgs
          /\ itsIn = FreshIts
    /\ its = itsIn
    /\ itsBackup = FreshIts
    /\ tMaxWorld = 0
    /\ tMaxLocal = 0
    /\ tAccum = 0
    /\ guard = 0
    /\ ipc = "call"
    /\ ret = FALSE
    /\ trResult = -1
    /\ shapeCalls = 0
    /\ delegated = FALSE
    /\ exitVia = "none"
    /\ lastU = -1

instConfig == <<m_shape, m_transform, m_alpha, op, tMaxArg, itsIn>>

-----------------------------------------------------------------------------
(* Instance::intersect *)

\* lines 41-45 and 105-119: the locals set up before the loop
IntersectEnter(start) ==
    /\ itsBackup' = start
    /\ tMaxWorld' = start.t
    /\ tMaxLocal' = IF m_transform = NoTransform THEN 0
                    ELSE IF IsHit(start)
                         THEN ToLocal(m_transform, start.position)
                         ELSE Infinity
    /\ tAccum' = 0
    /\ guard' = 0
    /\ ipc' = "loop"

\* the value transmittance computes from the outcome of the intersect call
TransmittanceLe(r, i, tMax) == IF r /\ i.t <= tMax THEN 0 ELSE 1

TransmittanceOfHit(r, i, tMax) == IF r /\ i.t < tMax THEN 0 ELSE 1

\* return r from Instance::intersect leaving i in the caller's Intersection;
\* when the caller is Instance::transmittance it returns right after
Return(r, i, via) ==
    /\ ret' = r
    /\ exitVia' = via
    /\ its' = i
    /\ ipc' = "done"
    /\ trResult' = IF op = "transmittance"
                   THEN TransmittanceOfHit(r, i, tMaxArg)
                   ELSE trResult

\* what `its` becomes when an accepted hit is discarded (lines 146-149)
DiscardKeepsCand(backup, cand) == cand

Discarded(backup, cand) == backup

\* the loop condition guard < 256
LoopContinuesOffByOne(g) == g <= MaxRetries

LoopContinues(g) == g < MaxRetries

\* the remaining distance budget of an attempt (lines 66 and 123)
BudgetIgnoresAdvance(tMax, acc) == tMax

Budget(tMax, acc) == FSub(tMax, acc)

\* the advance past a rejected hit: tAccumWorld += step + Epsilon
AdvancedWithoutEpsilon(acc, step) == acc + step

Advanced(acc, step) == acc + step + Epsilon

Call ==
    /\ UNCHANGED notInstVars    /\ ipc = "call"
    /\ op = "intersect"
    /\ IntersectEnter(its)
    /\ UNCHANGED <<instConfig, its, ret, trResult, shapeCalls, delegated, exitVia, lastU>>

\* one iteration of the loop of the untransformed path (lines 64-96)
Path1Iteration ==
    /\ UNCHANGED notInstVars    /\ ipc = "loop"
    /\ m_transform = NoTransform
    /\ LoopContinues(guard)
    /\ LET cand0 == [itsBackup EXCEPT !.t = Budget(tMaxWorld, tAccum)]
           res   == ShapeIntersect(m_shape, tAccum, cand0)
           cand  == [res.its EXCEPT !.instance = "this"]
       IN  IF cand0.t <= Epsilon
           THEN /\ Return(FALSE, itsBackup, "budget")
                /\ UNCHANGED <<tAccum, guard, shapeCalls, lastU>>
           ELSE IF ~res.hit
           THEN /\ Return(FALSE, itsBackup, "shapeMiss")
                /\ shapeCalls' = shapeCalls + 1
                /\ UNCHANGED <<tAccum, guard, lastU>>
           ELSE \E u \in RngDraws(m_alpha) :
                /\ shapeCalls' = shapeCalls + 1
                /\ lastU' = IF m_alpha = NoAlpha THEN lastU ELSE u
                /\ IF acceptByAlpha(m_alpha, cand, u)
                   THEN /\ Return(TRUE, [cand EXCEPT !.t = cand.t + tAccum], "accept")
                        /\ UNCHANGED <<tAccum, guard>>
                   ELSE /\ tAccum' = Advanced(tAccum, cand.t)
                        /\ guard' = guard + 1
                        /\ UNCHANGED <<its, ret, ipc, trResult, exitVia>>
    /\ UNCHANGED <<instConfig, itsBackup, tMaxWorld, tMaxLocal, delegated>>

\* one iteration of the loop of the transformed path (lines 121-159)
Path2Iteration ==
    /\ UNCHANGED notInstVars    /\ ipc = "loop"
    /\ m_transform # NoTransform
    /\ LoopContinues(guard)
    /\ LET cand0 == [itsBackup EXCEPT !.t = Budget(tMaxLocal, tAccum)]
           res   == ShapeIntersect(m_shape, tAccum, cand0)
           cand  == [res.its EXCEPT !.instance = "this"]
           surf  == transformFrame(m_transform, cand)
           world == [surf EXCEPT !.t = surf.position]
       IN  IF cand0.t <= Epsilon
           THEN /\ Return(FALSE, itsBackup, "budget")
                /\ UNCHANGED <<tAccum, guard, shapeCalls, lastU>>
           ELSE IF ~res.hit
           THEN /\ Return(FALSE, itsBackup, "shapeMiss")
                /\ shapeCalls' = shapeCalls + 1
                /\ UNCHANGED <<tAccum, guard, lastU>>
           ELSE \E u \in RngDraws(m_alpha) :
                /\ shapeCalls' = shapeCalls + 1
                /\ lastU' = IF m_alpha = NoAlpha THEN lastU ELSE u
                /\ IF acceptByAlpha(m_alpha, cand, u)
                   THEN /\ IF world.t >= tMaxWorld
                           THEN Return(FALSE, Discarded(itsBackup, world), "discard")
                           ELSE Return(TRUE, world, "accept")
                        /\ UNCHANGED <<tAccum, guard>>
                   ELSE /\ tAccum' = Advanced(tAccum, cand.t)
                        /\ guard' = guard + 1
                        /\ UNCHANGED <<its, ret, ipc, trResult, exitVia>>
    /\ UNCHANGED <<instConfig, itsBackup, tMaxWorld, tMaxLocal, delegated>>

\* the loop ran MaxRetries times without accepting (lines 98-99, 161-162)
LoopCapReached ==
    /\ UNCHANGED notInstVars    /\ ipc = "loop"
    /\ ~LoopContinues(guard)
    /\ Return(FALSE, itsBackup, "cap")
    /\ UNCHANGED <<instConfig, itsBackup, tMaxWorld, tMaxLocal, tAccum, guard,
                   shapeCalls, delegated, lastU>>

-----------------------------------------------------------------------------
(* Instance::transmittance *)

\* with an alpha mask: a fresh Intersection and the full stochastic intersect
TransmittanceAlpha ==
    /\ UNCHANGED notInstVars    /\ ipc = "call"
    /\ op = "transmittance"
    /\ m_alpha # NoAlpha
    /\ its' = FreshIts
    /\ IntersectEnter(FreshIts)
    /\ UNCHANGED <<instConfig, ret, trResult, shapeCalls, delegated, exitVia, lastU>>

\* without an alpha mask: delegate to the shape, tMax scaled to local space
TransmittanceDelegate ==
    /\ UNCHANGED notInstVars    /\ ipc = "call"
    /\ op = "transmittance"
    /\ m_alpha = NoAlpha
    /\ trResult' = IF m_transform = NoTransform
                   THEN ShapeTransmittance(m_shape, tMaxArg)
                   ELSE ShapeTransmittance(m_shape, ToLocal(m_transform, tMaxArg))
    /\ delegated' = TRUE
    /\ ipc' = "done"
    /\ UNCHANGED <<instConfig, its, itsBackup, tMaxWorld, tMaxLocal, tAccum,
                   guard, ret, shapeCalls, exitVia, lastU>>

-----------------------------------------------------------------------------
(* Instance::intersect of src/src/core/instance.cpp: a single attempt *)

\* if (rng.next() > alphaVal) return false, the scalar of the mask unclamped
SingleAccept(alpha, cand, u) ==
    IF alpha = NoAlpha THEN TRUE ELSE ~(u > alpha.map[cand.uv])

\* its.instance = this after m_shape->intersect wrote the hit into its
HitOfThis(res) == [res.its EXCEPT !.instance = "this"]

\* the transformed path after the mask accepted: transformFrame(its, ...);
\* its.t = (its.position - worldRay.origin).length()
WorldHit(xf, cand) ==
    [transformFrame(xf, cand) EXCEPT !.t = ToWorld(xf, cand.position)]

\* its.t = (m_transform->inverse(its.position) - localRay.origin).length()
\* if (its)
LocalBound(xf, cur) ==
    IF IsHit(cur) THEN [cur EXCEPT !.t = ToLocal(xf, cur.position)] ELSE cur

SingleStart == InstStart /\ op = "intersect"

\* the untransformed path (lines 41-63): the shape writes into its directly
\* and a hit the mask rejects is left there
SinglePath1Returns(res, cand) ==
    IF ~res.hit
    THEN /\ Return(FALSE, res.its, "shapeMiss")
         /\ UNCHANGED lastU
    ELSE \E u \in RngDraws(m_alpha) :
            /\ lastU' = IF m_alpha = NoAlpha THEN lastU ELSE u
            /\ IF SingleAccept(m_alpha, cand, u)
               THEN Return(TRUE, cand, "accept")
               ELSE Return(FALSE, cand, "reject")

SinglePath1With(res) == SinglePath1Returns(res, HitOfThis(res))

SinglePath1 ==
    /\ ipc = "call"
    /\ m_transform = NoTransform
    /\ SinglePath1With(ShapeIntersect(m_shape, 0, its))
    /\ shapeCalls' = shapeCalls + 1
    /\ UNCHANGED <<instConfig, itsBackup, tMaxWorld, tMaxLocal, tAccum, guard,
                   delegated>>
    /\ UNCHANGED notInstVars

\* the transformed path (lines 66-98): previousT is put back on a miss and
\* on a rejected hit
SinglePath2Returns(previousT, res, cand) ==
    IF ~res.hit
    THEN /\ Return(FALSE, [res.its EXCEPT !.t = previousT], "shapeMiss")
         /\ UNCHANGED lastU
    ELSE \E u \in RngDraws(m_alpha) :
            /\ lastU' = IF m_alpha = NoAlpha THEN lastU ELSE u
            /\ IF SingleAccept(m_alpha, cand, u)
               THEN Return(TRUE, WorldHit(m_transform, cand), "accept")
               ELSE Return(FALSE, [cand EXCEPT !.t = previousT], "reject")

SinglePath2With(previousT, res) ==
    SinglePath2Returns(previousT, res, HitOfThis(res))

SinglePath2 ==
    /\ ipc = "call"
    /\ m_transform # NoTransform
    /\ SinglePath2With(its.t,
                       ShapeIntersect(m_shape, 0, LocalBound(m_transform, its)))
    /\ shapeCalls' = shapeCalls + 1
    /\ UNCHANGED <<instConfig, itsBackup, tMaxWorld, tMaxLocal, tAccum, guard,
                   delegated>>
    /\ UNCHANGED notInstVars

-----------------------------------------------------------------------------
(* PathTracer *)

\* full transmittance, 1.0: radiance is counted in units of 1/TrOne
TrOne == 2

\* largest depth property tried
MaxDepthBound == 2

\* numbers of non-background lights of the scenes tried
LightCounts == {0, 1, 2}

Variants == {"loop", "breakTr", "breakOcc"}

\* what a call to the scene, a light or a BSDF returned
Out(valid, val, dist) == [valid |-> valid, val |-> val, dist |-> dist]

NoOut == Out(FALSE, 0, 0)

\* m_scene->intersect(ray, rng) for a path segment: a miss with the
\* background radiance its.evaluateEmission() then gives, or a hit with the
\* radiance the surface emits towards the ray (0: an invalid EmissionEval)
IntersectOuts == {Out(h, e, 0) : h \in BOOLEAN, e \in {0, 1}}

\* m_scene->sampleLight(rng): ls.light is null or a light, each light has
\* probability 1 / numLights
SampleLightOuts == {Out(v, 0, 0) : v \in BOOLEAN}

\* distance of a light with a position
LightDistance == 2 * Epsilon

\* ls.light->sampleDirect(its.position, rng): invalid (weight 0), or a weight
\* and a distance, infinite for directional and environment lights
SampleDirectOuts ==
    {Out(FALSE, 0, 0), Out(TRUE, 3, LightDistance), Out(TRUE, 3, Infinity)}

\* m_scene->transmittance(shadow, s.distance, rng), in units of 1/TrOne
TransmittanceOuts == {Out(TRUE, v, 0) : v \in {0, 1, TrOne}}

\* m_scene->intersect(shadow, rng): nothing, an occluder in front of the
\* light, or a surface behind it
ShadowIntersectOuts ==
    {Out(FALSE, 0, Infinity), Out(TRUE, 0, LightDistance - Epsilon),
     Out(TRUE, 0, LightDistance + Epsilon)}

\* its.evaluateBsdf(s.wi): the value, 0 being the invalid BsdfEval
EvaluateBsdfOuts == {Out(v # 0, v, 0) : v \in {0, 1}}

\* its.sampleBsdf(rng): the weight, 0 being the invalid BsdfSample
SampleBsdfOuts == {Out(v # 0, v, 0) : v \in {0, 2}}

AllOuts(kind) ==
    CASE kind = "intersect"       -> IntersectOuts
      [] kind = "sampleLight"     -> SampleLightOuts
      [] kind = "sampleDirect"    -> SampleDirectOuts
      [] kind = "transmittance"   -> TransmittanceOuts
      [] kind = "shadowIntersect" -> ShadowIntersectOuts
      [] kind = "evaluateBsdf"    -> EvaluateBsdfOuts
      [] kind = "sampleBsdf"      -> SampleBsdfOuts

\* What the call returns.  The scene, the lights and the BSDFs are immutable
\* and deterministic in their arguments and in the sampler: in the repeated
\* execution the n-th call returns what the n-th call of the first one
\* returned, provided it is the same call.
Outs(kind) ==
    LET n == Len(calls) + 1
    IN  IF run = 2 /\ n <= Len(calls1) /\ calls1[n].k = kind
        THEN {calls1[n].out}
        ELSE AllOuts(kind)

\* the record of a call: what was called, at which bounce, what it returned,
\* and the throughput and radiance at the time of the call
Called(kind, out) ==
    calls' = Append(calls, [k |-> kind, b |-> b, out |-> out, T |-> T, L |-> L])

\* the constructor: m_useNee = m_neeFlag && m_scene->hasLights()
UseNeeIgnoresLights(flag, n) == flag

UseNee(flag, n) == flag /\ n >= 1

\* the break before NEE and BSDF sampling: b >= m_maxDepth - 1
ReachedMaxDepthOffByOne(bounce, depth) == bounce >= depth

ReachedMaxDepth(bounce, depth) == bounce >= depth - 1

\* Color L(0.0f): the radiance at the start of Li, whatever L held before
StartRadianceStale(old) == old

StartRadiance(old) == 0

\* T *= bs.weight
NextThroughputAdds(t, w) == t + w

NextThroughput(t, w) == t * w

\* BsdfSample::operator bool
BsdfSampleValidAlways(bs) == TRUE

BsdfSampleValid(bs) == bs.val # 0

\* the shadow test of the versions that intersect the shadow ray
Occluded(occ, dist) ==
    IF occ.valid
    THEN IF dist = Infinity THEN TRUE ELSE occ.dist < dist
    ELSE FALSE

ptConfig == <<variant, numLights, m_maxDepth, m_neeFlag, m_useNee, run, calls1, result1>>

PTIdle ==
    /\ variant = "none"
    /\ numLights = 0
    /\ m_maxDepth = 0
    /\ m_neeFlag = FALSE
    /\ m_useNee = FALSE
    /\ L = 0
    /\ T = 0
    /\ b = 0
    /\ hit = NoOut
    /\ s = NoOut
    /\ Tr = 0
    /\ ppc = "idle"
    /\ calls = <<>>
    /\ run = 0
    /\ calls1 = <<>>
    /\ result1 = 0

PTStart ==
    /\ variant \in Variants
    /\ numLights \in LightCounts
    /\ m_maxDepth \in -1 .. MaxDepthBound
    /\ m_neeFlag \in BOOLEAN
    /\ m_useNee = UseNee(m_neeFlag, numLights)
    /\ L = 0
    /\ T = 0
    /\ b = 0
    /\ hit = NoOut
    /\ s = NoOut
    /\ Tr = 0
    /\ ppc = "start"
    /\ calls = <<>>
    /\ run = 1
    /\ calls1 = <<>>
    /\ result1 = 0

\* Color L(0.0f); Color T(1.0f); Ray ray = ray0; b = 0
LiBegin ==
    /\ ppc = "start"
    /\ L' = StartRadiance(L)
    /\ T' = 1
    /\ b' = 0
    /\ ppc' = "head"
    /\ UNCHANGED <<ptConfig, hit, s, Tr, calls>>
    /\ UNCHANGED notPtVars

\* the loop condition: b < m_maxDepth in the first version, none in the others
LoopHead ==
    /\ ppc = "head"
    /\ ppc' = IF variant = "loop" /\ ~(b < m_maxDepth) THEN "done" ELSE "intersect"
    /\ UNCHANGED <<ptConfig, L, T, b, hit, s, Tr, calls>>
    /\ UNCHANGED notPtVars

\* its = m_scene->intersect(ray, rng); the miss branch; the emission of the
\* hit; the break at the maximum depth
Intersect ==
    /\ ppc = "intersect"
    /\ \E out \in Outs("intersect") :
        /\ Called("intersect", out)
        /\ hit' = out
        /\ L' = L + T * out.val * TrOne
        /\ ppc' = IF ~out.valid THEN "done"
                  ELSE IF variant # "loop" /\ ReachedMaxDepth(b, m_maxDepth)
                       THEN "done"
                  ELSE IF m_useNee THEN "sampleLight"
                  ELSE "sampleBsdf"
    /\ UNCHANGED <<ptConfig, T, b, s, Tr>>
    /\ UNCHANGED notPtVars

\* LightSample ls = m_scene->sampleLight(rng); if (ls.light)
SampleLight ==
    /\ ppc = "sampleLight"
    /\ \E out \in Outs("sampleLight") :
        /\ Called("sampleLight", out)
        /\ ppc' = IF out.valid THEN "sampleDirect" ELSE "sampleBsdf"
    /\ UNCHANGED <<ptConfig, L, T, b, hit, s, Tr>>
    /\ UNCHANGED notPtVars

\* DirectLightSample s = ls.light->sampleDirect(its.position, rng); if (s)
SampleDirect ==
    /\ ppc = "sampleDirect"
    /\ \E out \in Outs("sampleDirect") :
        /\ Called("sampleDirect", out)
        /\ s' = out
        /\ ppc' = IF ~out.valid THEN "sampleBsdf"
                  ELSE IF variant = "breakTr" THEN "transmittance"
                  ELSE "shadowIntersect"
    /\ UNCHANGED <<ptConfig, L, T, b, hit, Tr>>
    /\ UNCHANGED notPtVars

\* float Tr = m_scene->transmittance(shadow, s.distance, rng); if (Tr > 0.0f)
ShadowTransmittance ==
    /\ ppc = "transmittance"
    /\ \E out \in Outs("transmittance") :
        /\ Called("transmittance", out)
        /\ Tr' = out.val
        /\ ppc' = IF out.val > 0 THEN "evaluateBsdf" ELSE "sampleBsdf"
    /\ UNCHANGED <<ptConfig, L, T, b, hit, s>>
    /\ UNCHANGED notPtVars

\* Intersection occ = m_scene->intersect(shadow, rng); if (!occluded)
ShadowIntersect ==
    /\ ppc = "shadowIntersect"
    /\ \E out \in Outs("shadowIntersect") :
        /\ Called("shadowIntersect", out)
        /\ Tr' = IF Occluded(out, s.dist) THEN 0 ELSE TrOne
        /\ ppc' = IF Occluded(out, s.dist) THEN "sampleBsdf" ELSE "evaluateBsdf"
    /\ UNCHANGED <<ptConfig, L, T, b, hit, s>>
    /\ UNCHANGED notPtVars

\* if (BsdfEval f = its.evaluateBsdf(s.wi))
\*     L += T * (Tr * f.value) * s.weight / ls.probability
EvaluateBsdf ==
    /\ ppc = "evaluateBsdf"
    /\ \E out \in Outs("evaluateBsdf") :
        /\ Called("evaluateBsdf", out)
        /\ L' = IF out.valid THEN L + T * (Tr * out.val) * s.val * numLights ELSE L
    /\ ppc' = "sampleBsdf"
    /\ UNCHANGED <<ptConfig, T, b, hit, s, Tr>>
    /\ UNCHANGED notPtVars

\* BsdfSample bs = its.sampleBsdf(rng); if (!bs) break;
\* T *= bs.weight; ray = Ray(its.position, bs.wi); ++b
SampleBsdf ==
    /\ ppc = "sampleBsdf"
    /\ \E out \in Outs("sampleBsdf") :
        /\ Called("sampleBsdf", out)
        /\ IF ~BsdfSampleValid(out)
           THEN /\ ppc' = "done"
                /\ UNCHANGED <<T, b>>
           ELSE /\ T' = NextThroughput(T, out.val)
                /\ b' = b + 1
                /\ ppc' = "head"
    /\ UNCHANGED <<ptConfig, L, hit, s, Tr>>
    /\ UNCHANGED notPtVars

\* return L; the same integrator is then asked again, with the same ray and
\* a sampler in the same state
LiReturn ==
    /\ ppc = "done"
    /\ run = 1
    /\ result1' = L
    /\ calls1' = calls
    /\ run' = 2
    /\ calls' = <<>>
    /\ ppc' = "start"
    /\ UNCHANGED <<variant, numLights, m_maxDepth, m_neeFlag, m_useNee, L, T, b,
                   hit, s, Tr>>
    /\ UNCHANGED notPtVars


-----------------------------------------------------------------------------
(* DirectIntegrator *)

\* "transmittance": the class in src/src/lights/directional.cpp, which asks
\* the scene for the transmittance of the shadow ray; "occlusion": the class
\* in src/src/integrators/direct.cpp, which intersects the shadow ray
DirectVersions == {"transmittance", "occlusion"}

\* positions of the primary hit
HitPositions == {8, 16}

\* Ray(origin, direction), the origin being a surface position moved by a
\* distance along a direction
RayFrom(pos, dist, dir) ==
    [origin |-> [at |-> pos, by |-> dist], direction |-> dir]

\* m_scene->intersect(ray, rng) for the primary ray: a miss with the
\* background radiance, or a hit with its position and the radiance the
\* surface emits (0: an invalid EmissionEval)
PrimaryOuts ==
    {[valid |-> FALSE, emission |-> e, position |-> 0] : e \in {0, 1}}
    \cup {[valid |-> TRUE, emission |-> e, position |-> q] :
              e \in {0, 1}, q \in HitPositions}

\* m_scene->sampleLight(rng): no light when the scene has none, else one of
\* the lights chosen uniformly; probabilityInv is 1 / probability
LightSampleOuts(n) ==
    {[valid |-> FALSE, probabilityInv |-> 0]}
    \cup (IF n >= 1 THEN {[valid |-> TRUE, probabilityInv |-> n]} ELSE {})

\* lightSample.light->sampleDirect(its.position, rng): invalid (weight 0),
\* or a direction, a weight and a distance
DirectSampleOuts ==
    {[valid |-> FALSE, wi |-> "none", weight |-> 0, distance |-> 0]}
    \cup {[valid |-> TRUE, wi |-> "toLight", weight |-> 3, distance |-> d] :
              d \in {LightDistance, Infinity}}

\* its.sampleBsdf(rng): the direction and the weight, 0 being the invalid
\* BsdfSample
BsdfSampleOuts ==
    {[valid |-> FALSE, wi |-> "none", weight |-> 0],
     [valid |-> TRUE, wi |-> "sampled", weight |-> 2]}

\* m_scene->intersect(shadowRay, rng) of the occlusion version: nothing, or
\* a surface at distance t from the shadow ray's origin
ShadowHitTs ==
    {LightDistance - 2 * Epsilon, LightDistance - Epsilon, LightDistance}

ShadowHitOuts ==
    {[valid |-> FALSE, t |-> Infinity]}
    \cup {[valid |-> TRUE, t |-> d] : d \in ShadowHitTs}

\* the record of a call: what was called, with which arguments, what it
\* returned, and result at the time of the call
DCalled(kind, arg, out) ==
    dcalls' = Append(dcalls, [k |-> kind, arg |-> arg, out |-> out,
                              result |-> result])

\* the origin offset of the shadow ray and of the bounce ray
RayOffset(version) == IF version = "transmittance" THEN 0 ELSE Epsilon

\* the test on the transmittance of the shadow ray
LightVisibleAtZero(tr) == tr >= 0

LightVisible(tr) == tr > 0

\* the shadow test of the occlusion version (direct.cpp lines 37-43)
DirectOccluded(shadowIts, distance) ==
    IF shadowIts.valid
    THEN IF distance = Infinity THEN TRUE ELSE shadowIts.t < distance - Epsilon
    ELSE FALSE

\* bsdfEval.value * directSample.weight * transmittance / lightSample.probability
NeeContributionWithoutTransmittance(f, w, tr, pinv) == f * w * TrOne * pinv

NeeContribution(f, w, tr, pinv) == f * w * tr * pinv

\* bsdfSample.weight * nextEmission
BounceContributionUnweighted(w, e) == e * TrOne

BounceContribution(w, e) == w * e * TrOne

diConfig == <<dVersion, dLights>>

NoSample == [valid |-> FALSE]

DIIdle ==
    /\ dVersion = "none"
    /\ dLights = 0
    /\ dIts = NoSample
    /\ result = 0
    /\ lightSample = NoSample
    /\ directSample = NoSample
    /\ transmittance = 0
    /\ bsdfSample = NoSample
    /\ dpc = "idle"
    /\ dcalls = <<>>

DIStart ==
    /\ dVersion \in DirectVersions
    /\ dLights \in LightCounts
    /\ dIts = NoSample
    /\ result = 0
    /\ lightSample = NoSample
    /\ directSample = NoSample
    /\ transmittance = 0
    /\ bsdfSample = NoSample
    /\ dpc = "intersect"
    /\ dcalls = <<>>

\* Intersection its = m_scene->intersect(ray, rng); the miss branch;
\* Color result(0); result += its.evaluateEmission().value
DirectIntersect ==
    /\ dpc = "intersect"
    /\ \E out \in PrimaryOuts :
        /\ DCalled("intersect", "primaryRay", out)
        /\ dIts' = out
        /\ result' = out.emission * TrOne
        /\ dpc' = IF out.valid THEN "sampleLight" ELSE "done"
    /\ UNCHANGED <<diConfig, lightSample, directSample, transmittance, bsdfSample>>
    /\ UNCHANGED notDiVars

\* LightSample lightSample = m_scene->sampleLight(rng); if (lightSample)
DirectSampleLight ==
    /\ dpc = "sampleLight"
    /\ \E out \in LightSampleOuts(dLights) :
        /\ DCalled("sampleLight", "rng", out)
        /\ lightSample' = out
        /\ dpc' = IF out.valid THEN "sampleDirect" ELSE "sampleBsdf"
    /\ UNCHANGED <<diConfig, dIts, result, directSample, transmittance, bsdfSample>>
    /\ UNCHANGED notDiVars

\* directSample = lightSample.light->sampleDirect(its.position, rng);
\* if (directSample)
DirectSampleDirect ==
    /\ dpc = "sampleDirect"
    /\ \E out \in DirectSampleOuts :
        /\ DCalled("sampleDirect", dIts.position, out)
        /\ directSample' = out
        /\ dpc' = IF ~out.valid THEN "sampleBsdf"
                  ELSE IF dVersion = "transmittance" THEN "transmittance"
                  ELSE "shadowIntersect"
    /\ UNCHANGED <<diConfig, dIts, result, lightSample, transmittance, bsdfSample>>
    /\ UNCHANGED notDiVars

\* Ray shadowRay(its.position, directSample.wi);
\* float transmittance = m_scene->transmittance(shadowRay,
\*     directSample.distance, rng); if (transmittance > 0)
DirectTransmittance ==
    /\ dpc = "transmittance"
    /\ \E out \in TransmittanceOuts :
        /\ DCalled("transmittance",
                   [ray |-> RayFrom(dIts.position, RayOffset(dVersion),
                                    directSample.wi),
                    tMax |-> directSample.distance],
                   out)
        /\ transmittance' = out.val
        /\ dpc' = IF LightVisible(out.val) THEN "evaluateBsdf" ELSE "sampleBsdf"
    /\ UNCHANGED <<diConfig, dIts, result, lightSample, directSample, bsdfSample>>
    /\ UNCHANGED notDiVars

\* Ray shadowRay(its.position + Epsilon * directSample.wi, directSample.wi);
\* Intersection shadowIts = m_scene->intersect(shadowRay, rng); if (!occluded)
DirectShadowIntersect ==
    /\ dpc = "shadowIntersect"
    /\ \E out \in ShadowHitOuts :
        /\ DCalled("shadowIntersect",
                   [ray |-> RayFrom(dIts.position, RayOffset(dVersion),
                                    directSample.wi)],
                   out)
        /\ transmittance' = IF DirectOccluded(out, directSample.distance)
                            THEN 0 ELSE TrOne
        /\ dpc' = IF DirectOccluded(out, directSample.distance)
                  THEN "sampleBsdf" ELSE "evaluateBsdf"
    /\ UNCHANGED <<diConfig, dIts, result, lightSample, directSample, bsdfSample>>
    /\ UNCHANGED notDiVars

\* BsdfEval bsdfEval = its.evaluateBsdf(directSample.wi);
\* if (bsdfEval) result += bsdfEval.value * directSample.weight *
\*                         transmittance / lightSample.probability
DirectEvaluateBsdf ==
    /\ dpc = "evaluateBsdf"
    /\ \E out \in EvaluateBsdfOuts :
        /\ DCalled("evaluateBsdf", directSample.wi, out)
        /\ result' = IF out.valid
                     THEN result + NeeContribution(out.val, directSample.weight,
                                                   transmittance,
                                                   lightSample.probabilityInv)
                     ELSE result
    /\ dpc' = "sampleBsdf"
    /\ UNCHANGED <<diConfig, dIts, lightSample, directSample, transmittance, bsdfSample>>
    /\ UNCHANGED notDiVars

\* BsdfSample bsdfSample = its.sampleBsdf(rng); if (bsdfSample)
DirectSampleBsdf ==
    /\ dpc = "sampleBsdf"
    /\ \E out \in BsdfSampleOuts :
        /\ DCalled("sampleBsdf", "rng", out)
        /\ bsdfSample' = out
        /\ dpc' = IF out.valid THEN "bounceIntersect" ELSE "done"
    /\ UNCHANGED <<diConfig, dIts, result, lightSample, directSample, transmittance>>
    /\ UNCHANGED notDiVars

\* Ray bounceRay(its.position, bsdfSample.wi);
\* Intersection bounceIts = m_scene->intersect(bounceRay, rng);
\* result += bsdfSample.weight * bounceIts.evaluateEmission().value
DirectBounce ==
    /\ dpc = "bounceIntersect"
    /\ \E out \in IntersectOuts :
        /\ DCalled("bounceIntersect",
                   [ray |-> RayFrom(dIts.position, RayOffset(dVersion),
                                    bsdfSample.wi)],
                   out)
        /\ result' = result + BounceContribution(bsdfSample.weight, out.val)
    /\ dpc' = "done"
    /\ UNCHANGED <<diConfig, dIts, lightSample, directSample, transmittance, bsdfSample>>
    /\ UNCHANGED notDiVars

-----------------------------------------------------------------------------
(* Vectors *)

\* Vector, Point: three coordinates in length units
Vec(x, y, z) == [x |-> x, y |-> y, z |-> z]

VAdd(v, w) == Vec(v.x + w.x, v.y + w.y, v.z + w.z)

VSub(v, w) == Vec(v.x - w.x, v.y - w.y, v.z - w.z)

VScale(v, k) == Vec(v.x * k, v.y * k, v.z * k)

Dot(v, w) == v.x * w.x + v.y * w.y + v.z * w.z

Cross(v, w) ==
    Vec(v.y * w.z - v.z * w.y, v.z * w.x - v.x * w.z, v.x * w.y - v.y * w.x)

\* v.normalized(): the unit vector v / |v|, kept as the vector it points along
Normalized(v) == [along |-> v]

\* -v for a unit vector
Negated(n) == [along |-> VScale(n.along, -1)]

\* the sign of n.dot(d), n a unit vector
DotSign(n, d) == Dot(n.along, d)

\* Point2, Vector2
Vec2(x, y) == [x |-> x, y |-> y]

\* fabs
Abs(x) == IF x < 0 THEN -x ELSE x

\* the quotient n / d of two floats, rounded down to a whole number of units
Quot(n, d) == IF d < 0 THEN (-n) \div (-d) ELSE n \div d

\* sqrt, rounded down to a whole number of units
Sqrt(n) == CHOOSE r \in 0 .. n : r * r <= n /\ (r + 1) * (r + 1) > n

\* ray(t): the point at distance t along the ray
RayAt(r, dist) == VAdd(r.origin, VScale(r.direction, dist))

-----------------------------------------------------------------------------
(* Intersection records handed to the shapes *)

\* the length 1.0f in length units: the radius of the unit sphere
One == 25

\* a default constructed Intersection with its.t = Infinity: no hit so far
NoHitYet ==
    [t |-> Infinity, position |-> Vec(0, 0, 0), uv |-> Vec2(0, 0),
     geometryNormal |-> Normalized(Vec(0, 0, 0)),
     shadingNormal |-> Normalized(Vec(0, 0, 0)),
     tangent |-> Normalized(Vec(0, 0, 0)), pdf |-> 0]

\* an Intersection holding the hit of another shape at distance w
EarlierHit(w) ==
    [t |-> w, position |-> Vec(99, 99, 99), uv |-> Vec2(9, 9),
     geometryNormal |-> Normalized(Vec(9, 9, 9)),
     shadingNormal |-> Normalized(Vec(9, 9, 9)),
     tangent |-> Normalized(Vec(9, 9, 8)), pdf |-> 9]

\* the directions of the rays tried: unit vectors along the z axis
Directions == {Vec(0, 0, 1), Vec(0, 0, -1)}

-----------------------------------------------------------------------------
(* Sphere *)

\* Sphere::populate
populate(surf, position) ==
    LET n == Normalized(position)
    IN  [surf EXCEPT
            !.position = position,
            !.uv = [spherical |-> n],
            !.geometryNormal = n,
            !.shadingNormal = n,
            !.tangent = IF position.x = 0 /\ position.z = 0
                        THEN Normalized(Vec(1, 0, 0))
                        ELSE Normalized(Vec(-position.z, 0, position.x)),
            !.pdf = 1]

\* whether a root is rejected: t < Epsilon || t > its.t
RootInvalid(root, cur) == root < Epsilon \/ root > cur.t

\* lines 77-96: the root reported when at least one of them is valid, t1
\* being the far and t2 the near root
FarRootFirst(t1, t2, t1Valid, t2Valid) == IF t1Valid THEN t1 ELSE t2

ChosenRoot(t1, t2, t1Valid, t2Valid) ==
    IF ~t1Valid THEN t2
    ELSE IF t2Valid /\ t2 < t1 THEN t2
    ELSE t1

\* Sphere::intersect(ray, its, rng): the return value and the Intersection
SphereIntersectOf(r, cur) ==
    LET quad_b    == 2 * Dot(r.origin, r.direction)
        quad_c    == Dot(r.origin, r.origin) - One * One
        disc      == quad_b * quad_b - 4 * quad_c
        sqrt_disc == Sqrt(disc)
        t1        == (-quad_b + sqrt_disc) \div 2
        t2        == (-quad_b - sqrt_disc) \div 2
        t1_valid  == ~RootInvalid(t1, cur)
        t2_valid  == ~RootInvalid(t2, cur)
        root      == ChosenRoot(t1, t2, t1_valid, t2_valid)
    IN  IF disc < 0 THEN [ret |-> FALSE, its |-> cur]
        ELSE IF ~t1_valid /\ ~t2_valid THEN [ret |-> FALSE, its |-> cur]
        ELSE [ret |-> TRUE,
              its |-> populate([cur EXCEPT !.t = root], RayAt(r, root))]

\* ray origins: beside the axis by 0, 7, 15, 24 (chords of half length 25,
\* 24, 20, 7), 25 (grazing) and 26 (missing); in front of, on, in and behind
\* the sphere
SphereOffsets == {0, 7, 15, 24, 25, 26}

SphereDepths == {-50, -29, -27, -18, 0, 18, 50}

SphereRays ==
    {[origin |-> Vec(h, 0, z), direction |-> d] :
        h \in SphereOffsets, z \in SphereDepths, d \in Directions}

\* the distances of the hit the caller may hold already
EarlierTs == {4, 7, 17, 25, 50}

CallerIts == {NoHitYet} \cup {EarlierHit(w) : w \in EarlierTs}

-----------------------------------------------------------------------------
(* TriangleMesh: one triangle *)

\* a Vertex of the mesh
Vertex(position, uv) ==
    [position |-> position, uv |-> uv, normal |-> Normalized(Vec(0, 0, 1))]

\* fabs(detM) < 1.0e-6, the determinant being a whole number here
Degenerate(detM) == Abs(detM) < 1

\* u < 0 || u > 1 for u = detMu * invDetM
OutsideUnit(num, den) ==
    IF den > 0 THEN num < 0 \/ num > den ELSE num > 0 \/ num < den

\* v < 0 || u + v > 1
OutsideTriangle(vnum, unum, den) ==
    IF den > 0 THEN vnum < 0 \/ unum + vnum > den
    ELSE vnum > 0 \/ unum + vnum < den

\* t < Epsilon || t > its.t
TooNearOrBehind(dist, cur) == dist < Epsilon \/ dist > cur.t

\* fabs(uvDet) > 1e-10f, the determinant being a whole number here
HasUvGradient(uvDet) == Abs(uvDet) > 0

\* (1 - u - v) * a + u * b + v * c, as a fraction over den
Interpolated(unum, vnum, den, a1, a2, a3) ==
    [n |-> (den - unum - vnum) * a1 + unum * a2 + vnum * a3, d |-> den]

\* uvAB.x() * uvAC.y() - uvAB.y() * uvAC.x()
UvDet(c1, c2, c3) ==
    (c2.uv.x - c1.uv.x) * (c3.uv.y - c1.uv.y)
        - (c2.uv.y - c1.uv.y) * (c3.uv.x - c1.uv.x)

\* (dpAB * uvAC.y() - dpAC * uvAB.y()) * (1.0f / uvDet), normalized
UvGradient(c1, c2, c3) ==
    LET dpAB == VSub(c2.position, c1.position)
        dpAC == VSub(c3.position, c1.position)
        dir  == VSub(VScale(dpAB, c3.uv.y - c1.uv.y),
                     VScale(dpAC, c2.uv.y - c1.uv.y))
    IN  Normalized(VScale(dir, IF UvDet(c1, c2, c3) > 0 THEN 1 ELSE -1))

\* lines 128-138: the tangent after the hit, old being its.tangent before
TangentOf(old, c1, c2, c3) ==
    IF HasUvGradient(UvDet(c1, c2, c3)) THEN UvGradient(c1, c2, c3) ELSE old

\* the determinants of Moeller-Trumbore: u = detMu / detM, v = detMv / detM,
\* t = detMt / detM
Determinants(mesh, r) ==
    LET edge1 == VSub(mesh.c2.position, mesh.c1.position)
        edge2 == VSub(mesh.c3.position, mesh.c1.position)
        oc    == VSub(r.origin, mesh.c1.position)
    IN  [detM  |-> Dot(edge1, Cross(r.direction, edge2)),
         detMu |-> Dot(oc, Cross(r.direction, edge2)),
         detMv |-> Dot(r.direction, Cross(oc, edge1)),
         detMt |-> Dot(edge2, Cross(oc, edge1))]

\* TriangleMesh::intersect(primitiveIndex, ray, its, rng)
TriangleIntersectOf(mesh, r, cur) ==
    LET c1    == mesh.c1
        c2    == mesh.c2
        c3    == mesh.c3
        edge1 == VSub(c2.position, c1.position)
        edge2 == VSub(c3.position, c1.position)
        det   == Determinants(mesh, r)
        dist  == Quot(det.detMt, det.detM)
        miss  == [ret |-> FALSE, its |-> cur]
    IN  IF Degenerate(det.detM) THEN miss
        ELSE IF OutsideUnit(det.detMu, det.detM) THEN miss
        ELSE IF OutsideTriangle(det.detMv, det.detMu, det.detM) THEN miss
        ELSE IF TooNearOrBehind(dist, cur) THEN miss
        ELSE [ret |-> TRUE,
              its |-> [cur EXCEPT
                  !.t = dist,
                  !.position = RayAt(r, dist),
                  !.uv = Vec2(Interpolated(det.detMu, det.detMv, det.detM,
                                           c1.uv.x, c2.uv.x, c3.uv.x),
                              Interpolated(det.detMu, det.detMv, det.detM,
                                           c1.uv.y, c2.uv.y, c3.uv.y)),
                  !.geometryNormal = Normalized(Cross(edge1, edge2)),
                  !.shadingNormal =
                      IF mesh.m_smoothNormals
                      THEN [interpolated |-> <<det.detMu, det.detMv, det.detM>>]
                      ELSE Normalized(Cross(edge1, edge2)),
                  !.tangent = TangentOf(cur.tangent, c1, c2, c3),
                  !.pdf = 1]]

\* the triangles tried: in the plane z = 10 with a uv map, the same without
\* uv, one rising along x, and one that contains the ray direction
Triangles ==
    {<<Vertex(Vec(0, 0, 10), Vec2(0, 0)), Vertex(Vec(8, 0, 10), Vec2(1, 0)),
       Vertex(Vec(0, 8, 10), Vec2(0, 1))>>,
     <<Vertex(Vec(0, 0, 10), Vec2(0, 0)), Vertex(Vec(8, 0, 10), Vec2(0, 0)),
       Vertex(Vec(0, 8, 10), Vec2(0, 0))>>,
     <<Vertex(Vec(0, 0, 10), Vec2(0, 0)), Vertex(Vec(8, 0, 18), Vec2(0, 1)),
       Vertex(Vec(0, 8, 10), Vec2(1, 0))>>,
     <<Vertex(Vec(0, 0, 10), Vec2(0, 0)), Vertex(Vec(8, 0, 10), Vec2(1, 0)),
       Vertex(Vec(0, 0, 18), Vec2(0, 1))>>}

Meshes ==
    {[kind |-> "mesh", c1 |-> tr[1], c2 |-> tr[2], c3 |-> tr[3],
      m_smoothNormals |-> sm] : tr \in Triangles, sm \in BOOLEAN}

\* ray origins: inside the triangle, on its edges, outside on every side;
\* in front of its plane, Epsilon in front, nearer than Epsilon, and behind
TriangleXYs ==
    {<<2, 2>>, <<4, 4>>, <<6, 6>>, <<0, 2>>, <<8, 0>>, <<-2, 2>>, <<10, 0>>,
     <<2, -2>>}

TriangleDepths == {0, 6, 8, 12, 20}

TriangleRays ==
    {[origin |-> Vec(xy[1], xy[2], z), direction |-> d] :
        xy \in TriangleXYs, z \in TriangleDepths, d \in Directions}

\* a call of TriangleMesh::intersect for one triangle
TriangleStart ==
    /\ sOp = "TriangleMesh::intersect"
    /\ sShape \in Meshes
    /\ sRay \in TriangleRays
    /\ sTMax = 0
    /\ sItsIn \in CallerIts \cup {EarlierHit(10)}
    /\ sU = 0

TriangleIntersect ==
    /\ spc = "call"
    /\ sOp = "TriangleMesh::intersect"
    /\ LET res == TriangleIntersectOf(sShape, sRay, sIts)
       IN  /\ sRet' = res.ret
           /\ sIts' = res.its
    /\ spc' = "done"
    /\ UNCHANGED <<shConfig, gotInterval, tEntry, tExit, tHit>>
    /\ UNCHANGED notShVars

-----------------------------------------------------------------------------
(* Calls of the shapes *)

NoShape == [kind |-> "none"]

SHIdle ==
    /\ sOp = "none"
    /\ sShape = NoShape
    /\ sRay = [origin |-> Vec(0, 0, 0), direction |-> Vec(0, 0, 1)]
    /\ sTMax = 0
    /\ sItsIn = NoHitYet
    /\ sIts = NoHitYet
    /\ sU = 0
    /\ gotInterval = FALSE
    /\ tEntry = 0
    /\ tExit = 0
    /\ tHit = 0
    /\ sRet = FALSE
    /\ spc = "idle"

\* a call of Sphere::intersect
SphereStart ==
    /\ sOp = "Sphere::intersect"
    /\ sShape = [kind |-> "sphere"]
    /\ sRay \in SphereRays
    /\ sTMax = 0
    /\ sItsIn \in CallerIts
    /\ sU = 0

SphereIntersect ==
    /\ spc = "call"
    /\ sOp = "Sphere::intersect"
    /\ LET res == SphereIntersectOf(sRay, sIts)
       IN  /\ sRet' = res.ret
           /\ sIts' = res.its
    /\ spc' = "done"
    /\ UNCHANGED <<shConfig, gotInterval, tEntry, tExit, tHit>>
    /\ UNCHANGED notShVars

-----------------------------------------------------------------------------
(* Volume *)

\* tExit = tEntry + exitIts.t: exitIts.t is measured from the inside ray's
\* origin
ExitDistanceFromInside(entry, exitT) == exitT

ExitDistance(entry, exitT) == entry + exitT

\* Volume::getInterval(ray, tEntry, tExit, rng); the bounding shape is the
\* unit sphere
IntervalOf(r, boundary, exit) ==
    IF ~boundary.ret
    THEN [ret |-> FALSE, tEntry |-> 0, tExit |-> 0]
    ELSE IF DotSign(boundary.its.geometryNormal, r.direction) < 0
    THEN [ret |-> TRUE, tEntry |-> boundary.its.t,
          tExit |-> IF exit.ret THEN ExitDistance(boundary.its.t, exit.its.t)
                    ELSE Infinity]
    ELSE [ret |-> TRUE, tEntry |-> 0, tExit |-> boundary.its.t]

\* the second m_boundary->intersect, from Epsilon behind the entry point
ExitOf(r, boundary) ==
    SphereIntersectOf([r EXCEPT !.origin = RayAt(r, boundary.its.t + Epsilon)],
                      NoHitYet)

EnteredAt(r, boundary) == IntervalOf(r, boundary, ExitOf(r, boundary))

getInterval(vol, r) ==
    IF vol.m_boundary = "none"
    THEN [ret |-> TRUE, tEntry |-> 0, tExit |-> Infinity]
    ELSE EnteredAt(r, SphereIntersectOf(r, NoHitYet))

\* the values of rng.next() tried: 0, 1/4, 1/2, 3/4, 1 - Epsilon, and one
\* above 1 - Epsilon; -log(1 - u) of the first five, in length units
NegLog1m == <<0, 7, 17, 35, 230>>

URange == 0 .. Len(NegLog1m)

\* u = std::min(u, 1.0f - Epsilon)
ClampU(u) == IF u > Len(NegLog1m) - 1 THEN Len(NegLog1m) - 1 ELSE u

\* sampledDistance = std::max(-std::log(1.0f - u) / m_density, Epsilon)
sampledDistance(vol, u) ==
    MaxOf(Quot(NegLog1m[ClampU(u) + 1], vol.m_density), Epsilon)

\* the rejection tests tHit >= tExit and tHit >= its.t
Exceeds(dist, limit) == dist > limit

NotBefore(dist, limit) == dist >= limit

\* the caller's Intersection after the event was found behind its.t
RejectedAfterWrite(cur, dist) == [cur EXCEPT !.t = dist]

Rejected(cur, dist) == cur

\* Volume::intersect(ray, its, rng), u being what rng.next() returns
MediumHit(r, cur, event, normal) ==
    [cur EXCEPT !.t = event,
                !.position = RayAt(r, event),
                !.shadingNormal = normal,
                !.geometryNormal = normal,
                !.tangent = [frameOf |-> normal],
                !.uv = Vec2(0, 0)]

\* Volume::intersect after getInterval returned iv and the event was
\* sampled at the distance event
EventIn(r, cur, iv, event) ==
    IF ~iv.ret THEN [ret |-> FALSE, its |-> cur, iv |-> iv, tHit |-> 0]
    ELSE IF NotBefore(event, iv.tExit)
    THEN [ret |-> FALSE, its |-> cur, iv |-> iv, tHit |-> event]
    ELSE IF NotBefore(event, cur.t)
    THEN [ret |-> FALSE, its |-> Rejected(cur, event), iv |-> iv,
          tHit |-> event]
    ELSE [ret |-> TRUE,
          its |-> MediumHit(r, cur, event, Negated(Normalized(r.direction))),
          iv |-> iv, tHit |-> event]

SampledIn(vol, r, cur, u, iv) ==
    EventIn(r, cur, iv, iv.tEntry + sampledDistance(vol, u))

\* Volume::intersect(ray, its, rng), u being what rng.next() returns
VolumeIntersectOf(vol, r, cur, u) ==
    SampledIn(vol, r, cur, u, getInterval(vol, r))

\* the float exp(-x); exp(-0) is 1.0f
ExpNeg(x) == [exp |-> -x]

\* m_density * (t1 - t0)
OpticalDepth(density, t0, t1) ==
    IF t1 = Infinity THEN Infinity ELSE density * (t1 - t0)

\* float t1 = std::min(tExit, tMax)
SegmentEndIgnoresTMax(exit, tMax) == exit

SegmentEnd(exit, tMax) == IF tMax < exit THEN tMax ELSE exit

\* Volume::transmittance(ray, tMax, rng)
TransmittanceOver(density, iv, t0, t1) ==
    [iv  |-> iv,
     ret |-> IF ~iv.ret THEN ExpNeg(0)
             ELSE IF t0 >= t1 THEN ExpNeg(0)
             ELSE ExpNeg(OpticalDepth(density, t0, t1))]

TransmittanceIn(vol, iv, tMax) ==
    TransmittanceOver(vol.m_density, iv, MaxOf(iv.tEntry, 0),
                      SegmentEnd(iv.tExit, tMax))

\* Volume::transmittance(ray, tMax, rng)
VolumeTransmittanceOf(vol, r, tMax) ==
    TransmittanceIn(vol, getInterval(vol, r), tMax)

Volumes ==
    {[kind |-> "volume", m_density |-> sigma, m_boundary |-> bd] :
        sigma \in {1, 2}, bd \in {"none", "sphere"}}

\* tMax arguments of Volume::transmittance
VolumeTMaxs == {-4, 0, 4, 17, 50, Infinity}

\* a call of Volume::intersect
VolumeIntersectStart ==
    /\ sOp = "Volume::intersect"
    /\ sShape \in Volumes
    /\ sRay \in SphereRays
    /\ sTMax = 0
    /\ sItsIn \in CallerIts
    /\ sU \in URange

\* a call of Volume::transmittance
VolumeTransmittanceStart ==
    /\ sOp = "Volume::transmittance"
    /\ sShape \in Volumes
    /\ sRay \in SphereRays
    /\ sTMax \in VolumeTMaxs
    /\ sItsIn = NoHitYet
    /\ sU = 0

\* what a call leaves in the out-parameters tEntry and tExit and returns
IntervalReturns(res) ==
    /\ sRet' = res.ret
    /\ gotInterval' = res.iv.ret
    /\ tEntry' = res.iv.tEntry
    /\ tExit' = res.iv.tExit

VolumeReturns(res) ==
    /\ IntervalReturns(res)
    /\ sIts' = res.its
    /\ tHit' = res.tHit

VolumeIntersect ==
    /\ spc = "call"
    /\ sOp = "Volume::intersect"
    /\ VolumeReturns(VolumeIntersectOf(sShape, sRay, sIts, sU))
    /\ spc' = "done"
    /\ UNCHANGED shConfig
    /\ UNCHANGED notShVars

VolumeTransmittance ==
    /\ spc = "call"
    /\ sOp = "Volume::transmittance"
    /\ IntervalReturns(VolumeTransmittanceOf(sShape, sRay, sTMax))
    /\ spc' = "done"
    /\ UNCHANGED <<shConfig, sIts, tHit>>
    /\ UNCHANGED notShVars

-----------------------------------------------------------------------------
(* Textures *)

\* uv coordinates are whole multiples of 1 / UVDen
UVDen == 4

\* the uv coordinates tried: from -2 to 2
UVRange == -(2 * UVDen) .. 2 * UVDen

\* the remainder a % n of C++, which has the sign of a
CRem(a, n) == IF a >= 0 THEN a % n ELSE -((-a) % n)

\* static_cast<int>(std::floor(num / den)), den > 0
FloorInt(num, den) == num \div den

\* static_cast<int>(std::round(num / den)), den > 0: halves go away from zero
RoundInt(num, den) ==
    IF num >= 0 THEN (2 * num + den) \div (2 * den)
    ELSE -((2 * (-num) + den) \div (2 * den))

\* bool useColor0 = ((gridX + gridY) % 2) == 0
UseColor0UnlessRemainderOne(sum) == CRem(sum, 2) # 1

UseColor0(sum) == CRem(sum, 2) = 0

\* Checkerboard::evaluate(uv)
CheckerboardEvaluate(tex, at) ==
    LET gridX == FloorInt(at.x * tex.m_scale.x, UVDen)
        gridY == FloorInt(at.y * tex.m_scale.y, UVDen)
    IN  IF UseColor0(gridX + gridY) THEN "m_color0" ELSE "m_color1"

\* lightwave's clamp(v, lo, hi) on integers
ClampInt(v, lo, hi) == IF v < lo THEN lo ELSE IF v > hi THEN hi ELSE v

\* ImageTexture::applyBorderMode(coord, size)
applyBorderModeWithoutWrap(border, coord, size) ==
    IF border = "Clamp" THEN ClampInt(coord, 0, size - 1)
    ELSE CRem(coord, size)

applyBorderMode(border, coord, size) ==
    IF border = "Clamp" THEN ClampInt(coord, 0, size - 1)
    ELSE LET c == CRem(coord, size)
         IN  IF c < 0 THEN c + size ELSE c

\* m_image->get(Point2i(x, y)): every texel of the image has its own value
Texel(x, y) == 1 + x + 10 * y

\* the continuous texel coordinates x = uv.x() * width - 0.5f and
\* y = (1.0f - uv.y()) * height - 0.5f, over the denominator 2 * UVDen
PixelX(at, width) == 2 * at.x * width - UVDen

PixelY(at, height) == 2 * (UVDen - at.y) * height - UVDen

PixelDen == 2 * UVDen

\* ImageTexture::sampleNearest: the texel fetched, the applyBorderMode calls
\* and the color, as a fraction
sampleNearest(tex, xn, yn) ==
    LET ix0 == RoundInt(xn, PixelDen)
        iy0 == RoundInt(yn, PixelDen)
        ix  == applyBorderMode(tex.m_border, ix0, tex.width)
        iy  == applyBorderMode(tex.m_border, iy0, tex.height)
    IN  [fetched |-> <<Vec2(ix, iy)>>,
         border  |-> {[coord |-> ix0, size |-> tex.width, out |-> ix],
                      [coord |-> iy0, size |-> tex.height, out |-> iy]},
         color   |-> [n |-> Texel(ix, iy), d |-> 1]]

\* ImageTexture::sampleBilinear
sampleBilinear(tex, xn, yn) ==
    LET fx  == FloorInt(xn, PixelDen)
        fy  == FloorInt(yn, PixelDen)
        x0  == applyBorderMode(tex.m_border, fx, tex.width)
        y0  == applyBorderMode(tex.m_border, fy, tex.height)
        x1  == applyBorderMode(tex.m_border, fx + 1, tex.width)
        y1  == applyBorderMode(tex.m_border, fy + 1, tex.height)
        tx  == xn - fx * PixelDen
        ty  == yn - fy * PixelDen
        T0  == tx * Texel(x1, y0) + (PixelDen - tx) * Texel(x0, y0)
        T1  == tx * Texel(x1, y1) + (PixelDen - tx) * Texel(x0, y1)
    IN  [fetched |-> <<Vec2(x0, y0), Vec2(x1, y0), Vec2(x0, y1), Vec2(x1, y1)>>,
         border  |-> {[coord |-> fx, size |-> tex.width, out |-> x0],
                      [coord |-> fy, size |-> tex.height, out |-> y0],
                      [coord |-> fx + 1, size |-> tex.width, out |-> x1],
                      [coord |-> fy + 1, size |-> tex.height, out |-> y1]},
         color   |-> [n |-> ty * T1 + (PixelDen - ty) * T0,
                      d |-> PixelDen * PixelDen]]

\* ImageTexture::evaluate(uv)
ImageEvaluate(tex, at) ==
    LET xn  == PixelX(at, tex.width)
        yn  == PixelY(at, tex.height)
        res == IF tex.m_filter = "Nearest" THEN sampleNearest(tex, xn, yn)
               ELSE sampleBilinear(tex, xn, yn)
    IN  [res EXCEPT !.color.n = res.color.n * tex.m_exposure]

Checkerboards ==
    {[kind |-> "checkerboard", m_scale |-> Vec2(sx, sy)] :
        sx \in {1, 2, 3}, sy \in {1, 2}}

\* image resolutions tried
ImageSizes == {1, 2, 3}

ImageTextures ==
    [kind : {"image"}, width : ImageSizes, height : ImageSizes,
     m_border : {"Clamp", "Repeat"}, m_filter : {"Nearest", "Bilinear"},
     m_exposure : {1, 2}]

NoColor == [n |-> 0, d |-> 1]

TXIdle ==
    /\ txOp = "none"
    /\ texture = [kind |-> "none"]
    /\ txUv = Vec2(0, 0)
    /\ txResult = NoColor
    /\ fetched = <<>>
    /\ borderCalls = {}
    /\ tpc = "idle"

TXStart ==
    /\ \/ txOp = "Checkerboard::evaluate" /\ texture \in Checkerboards
       \/ txOp = "ImageTexture::evaluate" /\ texture \in ImageTextures
    /\ txUv \in {Vec2(un, vn) : un \in UVRange, vn \in UVRange}
    /\ txResult = NoColor
    /\ fetched = <<>>
    /\ borderCalls = {}
    /\ tpc = "call"

CheckerboardCall ==
    /\ tpc = "call"
    /\ txOp = "Checkerboard::evaluate"
    /\ txResult' = CheckerboardEvaluate(texture, txUv)
    /\ tpc' = "done"
    /\ UNCHANGED <<txOp, texture, txUv, fetched, borderCalls>>
    /\ UNCHANGED notTxVars

ImageTextureCall ==
    /\ tpc = "call"
    /\ txOp = "ImageTexture::evaluate"
    /\ LET res == ImageEvaluate(texture, txUv)
       IN  /\ txResult' = res.color
           /\ fetched' = res.fetched
           /\ borderCalls' = res.border
    /\ tpc' = "done"
    /\ UNCHANGED <<txOp, texture, txUv>>
    /\ UNCHANGED notTxVars

-----------------------------------------------------------------------------
(* BSDFs: Dielectric::sample and Principled::sample *)

\* fixed-point unit of the Fresnel terms and of the values of rng.next()
FP == 100

\* a fraction n / d
Frac(n, d) == [n |-> n, d |-> d]

\* texture values tried, in halves: 0, 1/2, 1
Halves == {0, 1, 2}

\* indices of refraction tried, in halves: 1, 1.5, 2
IorHalves == {2, 3, 4}

\* the wo directions tried: unit vectors in the xz plane, in units of 1/One
WoDirections ==
    {Vec(0, 0, 25), Vec(7, 0, 24), Vec(15, 0, 20), Vec(20, 0, 15),
     Vec(24, 0, 7), Vec(25, 0, 0), Vec(24, 0, -7), Vec(20, 0, -15),
     Vec(15, 0, -20), Vec(7, 0, -24), Vec(0, 0, -25)}

\* the values of rng.next() tried, in [0, 1): 0, 1/4, 1/2, 3/4 and 99/100
BsdfDraws == {0, 25, 50, 75, 99}

\* reflect(wo, Vector(0, 0, 1)) = 2 * (n . wo) * n - wo, in units of 1/FP
ReflectAboutZ(wo) ==
    Vec(-(wo.x * FP) \div One, -(wo.y * FP) \div One, (wo.z * FP) \div One)

\* bool entering = cosTheta_o > 0
Entering(wo) == wo.z > 0

\* float eta_ratio = entering ? (1.0f / eta) : eta, eta being h / 2
EtaRatioSwapped(entering, h) == IF entering THEN Frac(h, 2) ELSE Frac(2, h)

EtaRatio(entering, h) == IF entering THEN Frac(2, h) ELSE Frac(h, 2)

\* sin2Theta_i = eta_ratio * eta_ratio * (1 - cosTheta_o * cosTheta_o)
Sin2ThetaI(ratio, wo) ==
    Frac(ratio.n * ratio.n * (One * One - wo.z * wo.z),
         ratio.d * ratio.d * One * One)

\* if (sin2Theta_i >= 1.0f)
TotalInternalReflection(sin2) == sin2.n >= sin2.d

\* cosTheta_i = std::sqrt(1.0f - sin2Theta_i), in units of 1/FP
CosThetaI(sin2) == Sqrt((FP * FP * (sin2.d - sin2.n)) \div sin2.d)

\* the square of (a - c) / (a + c), in units of 1/FP
SquaredRatio(a, c) == (FP * (a - c) * (a - c)) \div ((a + c) * (a + c))

\* Fr = 0.5f * (Rs * Rs + Rp * Rp), in units of 1/FP
Fresnel(ratio, absCos, cosI) ==
    (SquaredRatio(ratio.n * absCos, ratio.d * cosI)
       + SquaredRatio(ratio.d * absCos, ratio.n * cosI)) \div 2

\* the refracted direction Vector(-eta_ratio * wo.x(), -eta_ratio * wo.y(),
\* -sign * cosTheta_i), in units of 1/FP
Refracted(ratio, wo, cosI) ==
    Vec(Quot(-(ratio.n * wo.x * FP), ratio.d * One),
        Quot(-(ratio.n * wo.y * FP), ratio.d * One),
        IF Entering(wo) THEN -cosI ELSE cosI)

\* a BsdfSample whose weight is the named color times the fraction by
\* (n / d); drawn is the number of rng.next() calls made
SampleOf(wi, color, by, drawn) ==
    [wi |-> wi, color |-> color, by |-> by, drawn |-> drawn]

\* return BsdfSample{ .wi = wi, .weight = reflectance } of the total
\* internal reflection branch
ReflectedAll(wo) ==
    SampleOf(ReflectAboutZ(wo), "reflectance", Frac(1, 1), 0)

\* Dielectric::sample of part_005 below the test for total internal
\* reflection: rng.next() < Fr chooses the reflection
FresnelChoice(ratio, wo, cosI, fr, u) ==
    IF u < fr
    THEN SampleOf(ReflectAboutZ(wo), "reflectance", Frac(1, 1), 1)
    ELSE SampleOf(Refracted(ratio, wo, cosI), "transmittance",
                  Frac(ratio.n * ratio.n, ratio.d * ratio.d), 1)

\* reflectProb = (totalContrib > 0) ? (reflectContrib / totalContrib) : 1.0f
ReflectProb(reflectContrib, refractContrib) ==
    IF reflectContrib + refractContrib > 0
    THEN Frac(reflectContrib, reflectContrib + refractContrib)
    ELSE Frac(1, 1)

\* weight = weight * (Fr / reflectProb) if (reflectProb > 0)
ReflectWeight(fr, prob) ==
    IF prob.n > 0 THEN Frac(fr * prob.d, FP * prob.n) ELSE Frac(1, 1)

\* weight = transmittance * eta2, times (1 - Fr) / refractProb
\* if (refractProb > 0)
RefractWeight(ratio, fr, prob) ==
    IF prob.d - prob.n > 0
    THEN Frac(ratio.n * ratio.n * (FP - fr) * prob.d,
              ratio.d * ratio.d * FP * (prob.d - prob.n))
    ELSE Frac(ratio.n * ratio.n, ratio.d * ratio.d)

\* Dielectric::sample of part_006 below the test for total internal
\* reflection: rng.next() < reflectProb chooses the reflection
ImportanceChoice(ratio, wo, cosI, fr, prob, u) ==
    IF u * prob.d < FP * prob.n
    THEN SampleOf(ReflectAboutZ(wo), "reflectance",
                  ReflectWeight(fr, prob), 1)
    ELSE SampleOf(Refracted(ratio, wo, cosI), "transmittance",
                  RefractWeight(ratio, fr, prob), 1)

ImportanceSampled(mat, ratio, wo, cosI, fr, u) ==
    ImportanceChoice(ratio, wo, cosI, fr,
                     ReflectProb(fr * mat.reflectance,
                                 (FP - fr) * mat.transmittance), u)

Refracting(mat, ratio, wo, cosI, u) ==
    IF mat.variant = "fresnel"
    THEN FresnelChoice(ratio, wo, cosI,
                       Fresnel(ratio, Abs(wo.z) * (FP \div One), cosI), u)
    ELSE ImportanceSampled(mat, ratio, wo, cosI,
                           Fresnel(ratio, Abs(wo.z) * (FP \div One), cosI), u)

DielectricWith(mat, ratio, wo, sin2, u) ==
    IF TotalInternalReflection(sin2) THEN ReflectedAll(wo)
    ELSE Refracting(mat, ratio, wo, CosThetaI(sin2), u)

DielectricAt(mat, ratio, wo, u) ==
    DielectricWith(mat, ratio, wo, Sin2ThetaI(ratio, wo), u)

\* Dielectric::sample(uv, wo, rng), u being what rng.next() would return
DielectricSample(mat, wo, u) ==
    DielectricAt(mat, EtaRatio(Entering(wo), mat.ior), wo, u)

\* the two versions of Dielectric: "fresnel" chooses by Fr alone (part_005),
\* "importance" by Fr and the brightness of the two colors (part_006)
Dielectrics ==
    [kind : {"dielectric"}, variant : {"fresnel", "importance"},
     ior : IorHalves, reflectance : Halves, transmittance : Halves]

\* (1 - cosTheta)^5 of schlick, in units of 1/FP, multiplied out one
\* factor at a time
OneMinusCos(wo) == ((One - wo.z) * FP) \div One

Squared(x) == (x * x) \div FP

PowerFive(x) == (Squared(Squared(x)) * x) \div FP

\* schlick(F0, cosTheta) = F0 + (1 - F0) * (1 - cosTheta)^5
schlick(f0, wo) == f0 + ((FP - f0) * PowerFive(OneMinusCos(wo))) \div FP

\* F = specular * schlick((1.0f - metallic) * 0.08f, Frame::cosTheta(wo)),
\* the texture values in halves
PrincipledF(mat, wo) ==
    (mat.specular * schlick((2 - mat.metallic) * 4, wo)) \div 2

\* diffuseLobe.color.mean(), in units of 1 / (4 * FP)
DiffuseAlbedo(mat, f) == (FP - f) * (2 - mat.metallic) * mat.baseColor

\* metallicLobe.color.mean(), in units of 1 / (4 * FP)
MetallicAlbedo(mat, f) == 4 * f + (FP - f) * mat.metallic * mat.baseColor

\* diffuseSelectionProb =
\*     totalAlbedo > 0.0f ? diffuseAlbedo / totalAlbedo : 1.0f
SelectionProb(diffuseAlbedo, totalAlbedo) ==
    IF totalAlbedo > 0 THEN Frac(diffuseAlbedo, totalAlbedo) ELSE Frac(1, 1)

CombineWith(mat, f) ==
    SelectionProb(DiffuseAlbedo(mat, f),
                  DiffuseAlbedo(mat, f) + MetallicAlbedo(mat, f))

\* Principled::combine(uv, wo).diffuseSelectionProb
combine(mat, wo) == CombineWith(mat, PrincipledF(mat, wo))

\* if (rng.next() < combination.diffuseSelectionProb)
ChoosesDiffuseAtEquality(u, prob) == u * prob.d <= FP * prob.n

ChoosesDiffuse(u, prob) == u * prob.d < FP * prob.n

\* the sample of the chosen lobe with sample.weight divided by divisor
LobeSample(lobe, valid, prob, divisor) ==
    [lobe |-> lobe, valid |-> valid, pD |-> prob, divisor |-> divisor,
     drawn |-> 1]

PrincipledChoice(prob, u, metallicValid) ==
    IF ChoosesDiffuse(u, prob)
    THEN LobeSample("diffuse", TRUE, prob, prob)
    ELSE LobeSample("metallic", metallicValid, prob,
                    Frac(prob.d - prob.n, prob.d))

\* Principled::sample(uv, wo, rng)
PrincipledSample(mat, wo, u, metallicValid) ==
    PrincipledChoice(combine(mat, wo), u, metallicValid)

Principleds ==
    [kind : {"principled"}, baseColor : Halves, metallic : Halves,
     specular : Halves]

-----------------------------------------------------------------------------
(* Calls of the BSDFs *)

NoBsdfSample == [valid |-> FALSE]

BSIdle ==
    /\ bOp = "none"
    /\ bsdf = [kind |-> "none"]
    /\ bWo = Vec(0, 0, One)
    /\ bU = 0
    /\ lobeValid = FALSE
    /\ bSample = NoBsdfSample
    /\ bDrawn = 0
    /\ bpc = "idle"

BSStart ==
    /\ \/ bOp = "Dielectric::sample" /\ bsdf \in Dielectrics
                                     /\ lobeValid = TRUE
       \/ bOp = "Principled::sample" /\ bsdf \in Principleds
                                     /\ lobeValid \in BOOLEAN
    /\ bWo \in WoDirections
    /\ bU \in BsdfDraws
    /\ bSample = NoBsdfSample
    /\ bDrawn = 0
    /\ bpc = "call"

BsdfReturns(res) ==
    /\ bSample' = res
    /\ bDrawn' = res.drawn
    /\ bpc' = "done"
    /\ UNCHANGED <<bOp, bsdf, bWo, bU, lobeValid>>
    /\ UNCHANGED notBsVars

DielectricCall ==
    /\ bpc = "call"
    /\ bOp = "Dielectric::sample"
    /\ BsdfReturns(DielectricSample(bsdf, bWo, bU))

PrincipledCall ==
    /\ bpc = "call"
    /\ bOp = "Principled::sample"
    /\ BsdfReturns(PrincipledSample(bsdf, bWo, bU, lobeValid))

-----------------------------------------------------------------------------
(* Two workers in PathTracer::Li *)

\* Two workers call Li of the same integrator, on the same scene, each with
\* a Sampler of its own.  A step of a worker is one call to the scene, a
\* light or a BSDF together with the statements of Li around it; the steps
\* of the two workers interleave in any order.  The scene, the lights and
\* the BSDFs are read only: what a call returns is a function of its
\* arguments and of what the caller's Sampler returns.

Workers == {1, 2}

\* the largest depth property tried
WorkerMaxDepth == 2

\* the values a Sampler returns
WorkerDraws == 0 .. 2

\* the sequences a Sampler repeats
SamplerSequences == [1 .. 2 -> WorkerDraws]

\* Intersection its: declared in the body of Li's loop, one object for each
\* worker
ItsOfShared(w) == 1

ItsOf(w) == w

\* rng.next()
NextDraw(rng) == rng.seq[(rng.index % 2) + 1]

Drawn(rng) == [rng EXCEPT !.index = rng.index + 1]

NoIntersection == [valid |-> FALSE, surface |-> 0, emission |-> 0]

\* m_scene->intersect(ray, rng): a miss with the background's emission, or
\* a hit of surface 1 or 2 with the emission of the surface
SceneIntersect(r, u) ==
    IF (r + u) % 3 = 0
    THEN [valid |-> FALSE, surface |-> 0, emission |-> 1]
    ELSE [valid |-> TRUE, surface |-> (r + u) % 3, emission |-> ((r + u) % 3) - 1]

\* m_scene->sampleLight(rng)
SceneSampleLight(u) == [valid |-> u # 0]

\* ls.light->sampleDirect(its.position, rng)
LightSampleDirect(surface, u) ==
    [valid |-> (surface + u) % 3 # 0, weight |-> 3, wi |-> u]

\* m_scene->transmittance(shadow, s.distance, rng), in units of 1/TrOne
SceneTransmittance(surface, wi, u) == IF u = 0 THEN 0 ELSE IF u = 1 THEN 1 ELSE TrOne

\* its.evaluateBsdf(s.wi)
ItsEvaluateBsdf(surface, wi) == (surface + wi) % 2

\* its.sampleBsdf(rng): the weight, 0 being the invalid BsdfSample, and the
\* direction
ItsSampleBsdf(surface, u) ==
    [weight |-> IF u = 0 THEN 0 ELSE surface, wi |-> u]

\* the locals of Li before its first statement
NewFrame ==
    [pc |-> "start", L |-> 0, T |-> 0, b |-> 0, ray |-> 0, s |-> 0, Tr |-> 0]

\* a worker's view: its locals, its Sampler and its Intersection
View(frame, rng, hitObject) == [f |-> frame, rng |-> rng, its |-> hitObject]

\* Color L(0.0f); Color T(1.0f); Ray ray = ray0; b = 0
BeginStep(v) ==
    [v EXCEPT !.f = [NewFrame EXCEPT !.pc = "intersect", !.T = 1]]

\* where Li goes after the intersection: the miss branch, the break at the
\* maximum depth, next-event estimation or BSDF sampling
AfterIntersect(cfg, bounce, h) ==
    IF ~h.valid THEN "done"
    ELSE IF ReachedMaxDepth(bounce, cfg.m_maxDepth) THEN "done"
    ELSE IF cfg.m_useNee THEN "sampleLight"
    ELSE "sampleBsdf"

IntersectStepWith(v, cfg, h) ==
    [f |-> [v.f EXCEPT !.L = v.f.L + v.f.T * h.emission * TrOne,
                       !.pc = AfterIntersect(cfg, v.f.b, h)],
     rng |-> Drawn(v.rng),
     its |-> h]

\* Intersection its = m_scene->intersect(ray, rng) and the emission
IntersectStep(v, cfg) ==
    IntersectStepWith(v, cfg, SceneIntersect(v.f.ray, NextDraw(v.rng)))

\* LightSample ls = m_scene->sampleLight(rng); if (ls.light)
SampleLightStep(v) ==
    [v EXCEPT !.f.pc = IF SceneSampleLight(NextDraw(v.rng)).valid
                       THEN "sampleDirect" ELSE "sampleBsdf",
              !.rng = Drawn(v.rng)]

SampleDirectStepWith(v, ds) ==
    [v EXCEPT !.f.s = IF ds.valid THEN ds.weight ELSE 0,
              !.f.ray = ds.wi,
              !.f.pc = IF ds.valid THEN "transmittance" ELSE "sampleBsdf",
              !.rng = Drawn(v.rng)]

\* DirectLightSample s = ls.light->sampleDirect(its.position, rng); if (s);
\* Ray shadow(its.position, s.wi)
SampleDirectStep(v) ==
    SampleDirectStepWith(v, LightSampleDirect(v.its.surface, NextDraw(v.rng)))

TransmittanceStepWith(v, tr) ==
    [v EXCEPT !.f.Tr = tr,
              !.f.pc = IF tr > 0 THEN "evaluateBsdf" ELSE "sampleBsdf",
              !.rng = Drawn(v.rng)]

\* float Tr = m_scene->transmittance(shadow, s.distance, rng); if (Tr > 0.0f)
TransmittanceStep(v) ==
    TransmittanceStepWith(
        v, SceneTransmittance(v.its.surface, v.f.ray, NextDraw(v.rng)))

\* if (BsdfEval f = its.evaluateBsdf(s.wi))
\*     L += T * (Tr * f.value) * s.weight / ls.probability
EvaluateBsdfStep(v, cfg) ==
    [v EXCEPT !.f.L = v.f.L + v.f.T * (v.f.Tr
                          * ItsEvaluateBsdf(v.its.surface, v.f.ray))
                          * v.f.s * cfg.numLights,
              !.f.pc = "sampleBsdf"]

SampleBsdfStepWith(v, bs) ==
    IF bs.weight = 0
    THEN [v EXCEPT !.f.pc = "done", !.rng = Drawn(v.rng)]
    ELSE [v EXCEPT !.f.T = NextThroughput(v.f.T, bs.weight),
                   !.f.ray = v.its.surface + bs.wi,
                   !.f.b = v.f.b + 1,
                   !.f.pc = "intersect",
                   !.rng = Drawn(v.rng)]

\* BsdfSample bs = its.sampleBsdf(rng); if (!bs) break;
\* T *= bs.weight; ray = Ray(its.position, bs.wi); ++b
SampleBsdfStep(v) ==
    SampleBsdfStepWith(v, ItsSampleBsdf(v.its.surface, NextDraw(v.rng)))

\* the next step of Li
LiStep(v, cfg) ==
    CASE v.f.pc = "start"         -> BeginStep(v)
      [] v.f.pc = "intersect"     -> IntersectStep(v, cfg)
      [] v.f.pc = "sampleLight"   -> SampleLightStep(v)
      [] v.f.pc = "sampleDirect"  -> SampleDirectStep(v)
      [] v.f.pc = "transmittance" -> TransmittanceStep(v)
      [] v.f.pc = "evaluateBsdf"  -> EvaluateBsdfStep(v, cfg)
      [] v.f.pc = "sampleBsdf"    -> SampleBsdfStep(v)
      [] OTHER                    -> v

\* Li run by one worker with nothing else running: the radiance it returns
RECURSIVE LiAlone(_, _)
LiAlone(v, cfg) ==
    IF v.f.pc = "done" THEN v.f.L ELSE LiAlone(LiStep(v, cfg), cfg)

CWIdle ==
    /\ integrator = [m_maxDepth |-> 0, m_useNee |-> FALSE, numLights |-> 0]
    /\ frames = [w \in Workers |-> [NewFrame EXCEPT !.pc = "idle"]]
    /\ samplers = [w \in Workers |-> [seq |-> <<0, 0>>, index |-> 0]]
    /\ intersections = [w \in Workers |-> NoIntersection]

CWStart ==
    /\ integrator \in {[m_maxDepth |-> d, m_useNee |-> UseNee(flag, 1),
                        numLights |-> 1] :
                           d \in 1 .. WorkerMaxDepth, flag \in BOOLEAN}
    /\ frames = [w \in Workers |-> NewFrame]
    /\ samplers \in [Workers -> {[seq |-> q, index |-> 0] :
                                     q \in SamplerSequences}]
    /\ intersections = [w \in Workers |-> NoIntersection]

\* what worker w sees
ViewOf(w) == View(frames[w], samplers[w], intersections[ItsOf(w)])

\* worker w runs its next step: it writes its locals, its Sampler and its
\* Intersection
WorkerWrites(w, v) ==
    /\ frames' = [frames EXCEPT ![w] = v.f]
    /\ samplers' = [samplers EXCEPT ![w] = v.rng]
    /\ intersections' = [intersections EXCEPT ![ItsOf(w)] = v.its]
    /\ UNCHANGED integrator
    /\ UNCHANGED notCwVars

WorkerAt(w, pc) == frames[w].pc = pc

WorkerBegin ==
    \E w \in Workers :
        WorkerAt(w, "start") /\ WorkerWrites(w, BeginStep(ViewOf(w)))

WorkerIntersect ==
    \E w \in Workers :
        /\ WorkerAt(w, "intersect")
        /\ WorkerWrites(w, IntersectStep(ViewOf(w), integrator))

WorkerSampleLight ==
    \E w \in Workers :
        WorkerAt(w, "sampleLight") /\ WorkerWrites(w, SampleLightStep(ViewOf(w)))

WorkerSampleDirect ==
    \E w \in Workers :
        /\ WorkerAt(w, "sampleDirect")
        /\ WorkerWrites(w, SampleDirectStep(ViewOf(w)))

WorkerTransmittance ==
    \E w \in Workers :
        /\ WorkerAt(w, "transmittance")
        /\ WorkerWrites(w, TransmittanceStep(ViewOf(w)))

WorkerEvaluateBsdf ==
    \E w \in Workers :
        /\ WorkerAt(w, "evaluateBsdf")
        /\ WorkerWrites(w, EvaluateBsdfStep(ViewOf(w), integrator))

WorkerSampleBsdf ==
    \E w \in Workers :
        WorkerAt(w, "sampleBsdf") /\ WorkerWrites(w, SampleBsdfStep(ViewOf(w)))

-----------------------------------------------------------------------------
(* Specifications *)

InitInstance == InstStart /\ PTIdle /\ DIIdle /\ SHIdle /\ TXIdle /\ BSIdle /\ CWIdle

NextInstance ==
    \/ Call
    \/ Path1Iteration
    \/ Path2Iteration
    \/ LoopCapReached
    \/ TransmittanceAlpha
    \/ TransmittanceDelegate

SpecInstance == InitInstance /\ [][NextInstance]_vars

InitSingle ==
    SingleStart /\ PTIdle /\ DIIdle /\ SHIdle /\ TXIdle /\ BSIdle /\ CWIdle

NextSingle ==
    \/ SinglePath1
    \/ SinglePath2

SpecSingle == InitSingle /\ [][NextSingle]_vars

InitPathTracer == InstIdle /\ PTStart /\ DIIdle /\ SHIdle /\ TXIdle /\ BSIdle /\ CWIdle

NextPathTracer ==
    \/ LiBegin
    \/ LoopHead
    \/ Intersect
    \/ SampleLight
    \/ SampleDirect
    \/ ShadowTransmittance
    \/ ShadowIntersect
    \/ EvaluateBsdf
    \/ SampleBsdf
    \/ LiReturn

SpecPathTracer == InitPathTracer /\ [][NextPathTracer]_vars

InitDirect == InstIdle /\ PTIdle /\ DIStart /\ SHIdle /\ TXIdle /\ BSIdle /\ CWIdle

NextDirect ==
    \/ DirectIntersect
    \/ DirectSampleLight
    \/ DirectSampleDirect
    \/ DirectTransmittance
    \/ DirectShadowIntersect
    \/ DirectEvaluateBsdf
    \/ DirectSampleBsdf
    \/ DirectBounce

SpecDirect == InitDirect /\ [][NextDirect]_vars

\* DirectIntegrator::Li of directional.cpp after PathTracer::Li of
\* pathtracer.cpp lines 114-175 with depth = 2 and nee = true, in a scene
\* with a light, on the same primary ray and the same sampler sequence
InitSameEstimator ==
    /\ InstIdle /\ PTStart /\ DIStart /\ SHIdle /\ TXIdle /\ BSIdle /\ CWIdle
    /\ variant = "breakTr"
    /\ m_maxDepth = 2
    /\ m_neeFlag
    /\ numLights >= 1
    /\ dVersion = "transmittance"
    /\ dLights = numLights

\* the kind of scene, light or BSDF call a call of DirectIntegrator::Li is
PathKind(c) == IF c.k = "bounceIntersect" THEN "intersect" ELSE c.k

\* a value returned to DirectIntegrator::Li is the value returned to
\* PathTracer::Li: the fields the two integrators read agree
SameAnswer(kind, p, d) ==
    CASE kind = "intersect" /\ "emission" \in DOMAIN d ->
             d.valid = p.valid /\ d.emission = p.val
      [] kind = "sampleLight" ->
             d.valid = p.valid
      [] kind = "sampleDirect" ->
             d.valid = p.valid /\ d.weight = p.val /\ d.distance = p.dist
      [] kind = "sampleBsdf" ->
             d.valid = p.valid /\ d.weight = p.val
      [] OTHER -> d = p

\* The scene, the lights and the BSDFs are deterministic in their arguments
\* and in the sampler: the n-th call of DirectIntegrator::Li returns what
\* the n-th call of PathTracer::Li returned, provided it is the same call.
SameSampler ==
    LET n == Len(dcalls)
    IN  (n >= 1 /\ n <= Len(calls) /\ PathKind(dcalls[n]) = calls[n].k)
            => SameAnswer(calls[n].k, calls[n].out, dcalls[n].out)

AfterPath == ppc = "done"

NextSameEstimator ==
    \/ LiBegin
    \/ LoopHead
    \/ Intersect
    \/ SampleLight
    \/ SampleDirect
    \/ ShadowTransmittance
    \/ EvaluateBsdf
    \/ SampleBsdf
    \/ AfterPath /\ DirectIntersect /\ SameSampler'
    \/ AfterPath /\ DirectSampleLight /\ SameSampler'
    \/ AfterPath /\ DirectSampleDirect /\ SameSampler'
    \/ AfterPath /\ DirectTransmittance /\ SameSampler'
    \/ AfterPath /\ DirectEvaluateBsdf /\ SameSampler'
    \/ AfterPath /\ DirectSampleBsdf /\ SameSampler'
    \/ AfterPath /\ DirectBounce /\ SameSampler'

SpecSameEstimator == InitSameEstimator /\ [][NextSameEstimator]_vars

\* a call of one of the shapes' methods
SHStart ==
    /\ \/ SphereStart
       \/ TriangleStart
       \/ VolumeIntersectStart
       \/ VolumeTransmittanceStart
    /\ sIts = sItsIn
    /\ gotInterval = FALSE
    /\ tEntry = 0
    /\ tExit = 0
    /\ tHit = 0
    /\ sRet = FALSE
    /\ spc = "call"

InitShapes == InstIdle /\ PTIdle /\ DIIdle /\ SHStart /\ TXIdle /\ BSIdle /\ CWIdle

NextShapes ==
    \/ SphereIntersect
    \/ TriangleIntersect
    \/ VolumeIntersect
    \/ VolumeTransmittance

SpecShapes == InitShapes /\ [][NextShapes]_vars

InitTextures == InstIdle /\ PTIdle /\ DIIdle /\ SHIdle /\ TXStart /\ BSIdle /\ CWIdle

NextTextures ==
    \/ CheckerboardCall
    \/ ImageTextureCall

SpecTextures == InitTextures /\ [][NextTextures]_vars

InitBsdfs ==
    InstIdle /\ PTIdle /\ DIIdle /\ SHIdle /\ TXIdle /\ BSStart /\ CWIdle

NextBsdfs ==
    \/ DielectricCall
    \/ PrincipledCall

SpecBsdfs == InitBsdfs /\ [][NextBsdfs]_vars

InitWorkers ==
    InstIdle /\ PTIdle /\ DIIdle /\ SHIdle /\ TXIdle /\ BSIdle /\ CWStart

NextWorkers ==
    \/ WorkerBegin
    \/ WorkerIntersect
    \/ WorkerSampleLight
    \/ WorkerSampleDirect
    \/ WorkerTransmittance
    \/ WorkerEvaluateBsdf
    \/ WorkerSampleBsdf

SpecWorkers == InitWorkers /\ [][NextWorkers]_vars

-----------------------------------------------------------------------------
(* Properties of Instance::intersect and Instance::transmittance *)

InstDone == ipc = "done"

\* Instance::intersect ran its loop (directly, or inside transmittance)
IntersectReturned == InstDone /\ exitVia # "none"

\* the Intersection that was handed to Instance::intersect
ItsAtEntry == IF op = "transmittance" THEN FreshIts ELSE itsIn

\* C1: whenever the retry-loop Instance::intersect returns false, every
\* field of the caller's Intersection equals its value before the call, on
\* the untransformed and on the transformed path.
C1_RestoredOnFalse ==
    (IntersectReturned /\ ~ret) => its = ItsAtEntry

\* an accepted hit of a transformed instance was discarded behind an earlier
\* hit, after at least one candidate was rejected by the alpha mask
C1_Witness ==
    /\ IntersectReturned /\ ~ret
    /\ op = "intersect"
    /\ exitVia = "discard"
    /\ guard > 0
    /\ IsHit(itsIn)
    /\ its = itsIn

\* the alpha mask evaluates to 0 at every uv
AlphaIdenticallyZero ==
    /\ m_alpha # NoAlpha
    /\ \A uv \in UVs : m_alpha.map[uv] = 0

\* C2: for an instance whose alpha mask is 0 at every uv, intersect returns
\* false for every value of rng.next() in [0,1) and transmittance returns 1.
C2_ZeroAlphaIsEmptySpace ==
    (AlphaIdenticallyZero /\ InstDone) =>
        /\ ~ret
        /\ (op = "transmittance" => trResult = 1)

\* C3: one call of Instance::intersect invokes the shape's intersect at most
\* 256 times, and when all 256 candidates were rejected by the alpha mask it
\* returns false.
C3_AtMost256ShapeCalls ==
    /\ shapeCalls <= MaxRetries
    /\ guard <= MaxRetries
    /\ (ipc = "loop" => shapeCalls = guard)
    /\ (InstDone /\ guard = MaxRetries => ~ret /\ exitVia = "cap")

\* the cap was reached: 256 candidates, all rejected
C3_Witness ==
    /\ InstDone
    /\ exitVia = "cap"
    /\ shapeCalls = MaxRetries
    /\ ~ret

\* C4: whenever Instance::intersect returns true, the t it leaves is not
\* greater than the t that was passed in.
C4_NeverFarther ==
    (IntersectReturned /\ ret) => its.t <= ItsAtEntry.t

\* a hit in front of an earlier hit, found after an alpha-rejected retry
C4_Witness ==
    /\ IntersectReturned /\ ret
    /\ op = "intersect"
    /\ IsHit(itsIn)
    /\ guard > 0
    /\ its.t < itsIn.t

\* C5: whenever Instance::intersect returns true, the world-space t it
\* reports is finite and >= Epsilon, also for a transform that scales
\* distances.
C5_WorldTAtLeastEpsilon ==
    (IntersectReturned /\ ret) => (its.t >= Epsilon /\ its.t < Infinity)

-----------------------------------------------------------------------------
(* Properties of PathTracer::Li *)

BreakVariant == variant \in {"breakTr", "breakOcc"}

\* number of path segments traced so far: m_scene->intersect(ray, rng) calls
Segments == Cardinality({i \in DOMAIN calls : calls[i].k = "intersect"})

\* what Li does after its i-th call: the next call, or where it stands
NextCall(i) == IF i < Len(calls) THEN calls[i + 1].k ELSE ppc

\* the radiance after the statements that follow the i-th call
LAfter(i) == IF i < Len(calls) THEN calls[i + 1].L ELSE L

\* C7: the break-based PathTracer::Li traces at most max(1, maxDepth) path
\* segments for every integer maxDepth, stops at bounce maxDepth - 1 right
\* after adding that vertex's emission, and samples lights and the BSDF only
\* at bounces b < maxDepth - 1.
C7_DepthBound ==
    BreakVariant =>
        /\ Segments <= MaxOf(1, m_maxDepth)
        /\ \A i \in DOMAIN calls :
            LET c == calls[i]
            IN  /\ c.k # "intersect" => c.b < m_maxDepth - 1
                /\ c.k = "intersect" => c.b <= MaxOf(0, m_maxDepth - 1)
                /\ (c.k = "intersect" /\ c.out.valid /\ c.b >= m_maxDepth - 1) =>
                      /\ i = Len(calls)
                      /\ ppc = "done"
                      /\ L = c.L + c.T * c.out.val * TrOne

\* the path was cut at the last allowed vertex, an emitter reached over one
\* bounce
C7_Witness ==
    /\ BreakVariant
    /\ run = 1
    /\ ppc = "done"
    /\ m_maxDepth = MaxDepthBound
    /\ Segments = m_maxDepth
    /\ calls[Len(calls)].k = "intersect"
    /\ calls[Len(calls)].out = Out(TRUE, 1, 0)
    /\ calls[Len(calls)].b = m_maxDepth - 1

\* the next-event-estimation term added after the i-th call, evaluateBsdf
NeeTerm(i) ==
    calls[i].T * calls[i - 1].out.val * calls[i].out.val
        * calls[i - 2].out.val * numLights

\* C8: the term T * bsdf * lightWeight * transmittance / lightProbability is
\* added to L at a path vertex if and only if the nee flag is set, the scene
\* has a non-background light, the vertex is not the last one, the light
\* sample and the direct-light sample are valid, the transmittance of the
\* shadow ray is > 0 and the BSDF evaluation is valid; otherwise the NEE leg
\* leaves L unchanged, and without NEE sampleLight is never called.
C8_NeeLeg ==
    variant = "breakTr" =>
        \A i \in DOMAIN calls :
            LET c == calls[i]
            IN  /\ c.k = "sampleLight" =>
                      /\ m_neeFlag /\ numLights >= 1
                      /\ c.b < m_maxDepth - 1
                      /\ i > 1 /\ calls[i - 1].k = "intersect" /\ calls[i - 1].out.valid
                      /\ LAfter(i) = c.L
                      /\ c.out.valid => NextCall(i) = "sampleDirect"
                /\ c.k = "sampleDirect" =>
                      /\ calls[i - 1].k = "sampleLight" /\ calls[i - 1].out.valid
                      /\ LAfter(i) = c.L
                      /\ c.out.valid => NextCall(i) = "transmittance"
                /\ c.k = "transmittance" =>
                      /\ calls[i - 1].k = "sampleDirect" /\ calls[i - 1].out.valid
                      /\ LAfter(i) = c.L
                      /\ c.out.val > 0 => NextCall(i) = "evaluateBsdf"
                /\ c.k = "evaluateBsdf" =>
                      /\ calls[i - 1].k = "transmittance" /\ calls[i - 1].out.val > 0
                      /\ LAfter(i) = c.L + (IF c.out.valid THEN NeeTerm(i) ELSE 0)
                /\ (/\ c.k = "intersect" /\ c.out.valid
                    /\ m_neeFlag /\ numLights >= 1
                    /\ c.b < m_maxDepth - 1) => NextCall(i) = "sampleLight"
                /\ c.k = "shadowIntersect" => FALSE

\* a term with a fractional transmittance and a light probability below 1
\* was added
C8_Witness ==
    /\ variant = "breakTr"
    /\ numLights = 2
    /\ \E i \in DOMAIN calls :
        /\ calls[i].k = "evaluateBsdf"
        /\ calls[i].out.valid
        /\ calls[i - 1].out.val = 1
        /\ LAfter(i) = calls[i].L + 6

\* the i-th call ended the path: a miss, or an invalid BSDF sample
Miss(i) == calls[i].k = "intersect" /\ ~calls[i].out.valid

InvalidBsdfSample(i) == calls[i].k = "sampleBsdf" /\ calls[i].out.val = 0

\* C9: the path stops at the first miss or the first invalid BSDF sample: a
\* miss adds T * background once, an invalid BSDF sample changes neither T
\* nor L, no call follows either, and the accumulated L is returned.
C9_StopsAtMissOrInvalidSample ==
    /\ \A i \in DOMAIN calls :
        /\ Miss(i) =>
              /\ i = Len(calls) /\ ppc = "done"
              /\ L = calls[i].L + calls[i].T * calls[i].out.val * TrOne
              /\ T = calls[i].T
        /\ InvalidBsdfSample(i) =>
              /\ i = Len(calls) /\ ppc = "done"
              /\ L = calls[i].L
              /\ T = calls[i].T
    /\ (run = 2 /\ calls1 # <<>>) =>
          LET n == Len(calls1)
              c == calls1[n]
          IN  /\ (c.k = "intersect" /\ ~c.out.valid) =>
                    result1 = c.L + c.T * c.out.val * TrOne
              /\ (c.k = "sampleBsdf" /\ c.out.val = 0) => result1 = c.L

\* a ray that left the scene after one bounce of weight 2 brought the
\* background in, doubled
C9_Witness ==
    /\ ppc = "done"
    /\ calls # <<>>
    /\ Miss(Len(calls))
    /\ calls[Len(calls)].b = 1
    /\ calls[Len(calls)].T = 2
    /\ calls[Len(calls)].out.val = 1
    /\ L = calls[Len(calls)].L + 2 * TrOne

\* the order of the calls within a vertex
Follows(k1, k2) ==
    CASE k1 = "intersect"       -> k2 \in {"sampleLight", "sampleBsdf"}
      [] k1 = "sampleLight"     -> k2 \in {"sampleDirect", "sampleBsdf"}
      [] k1 = "sampleDirect"    -> k2 \in {"transmittance", "shadowIntersect", "sampleBsdf"}
      [] k1 = "transmittance"   -> k2 \in {"evaluateBsdf", "sampleBsdf"}
      [] k1 = "shadowIntersect" -> k2 \in {"evaluateBsdf", "sampleBsdf"}
      [] k1 = "evaluateBsdf"    -> k2 = "sampleBsdf"
      [] k1 = "sampleBsdf"      -> k2 = "intersect"

-----------------------------------------------------------------------------
(* Properties of DirectIntegrator::Li *)

\* what Li does after its i-th call: the next call, or where it stands
DNextCall(i) == IF i < Len(dcalls) THEN dcalls[i + 1].k ELSE dpc

\* result after the statements that follow the i-th call
DResultAfter(i) == IF i < Len(dcalls) THEN dcalls[i + 1].result ELSE result

\* the primary ray hit a surface
PrimaryHit == dcalls # <<>> /\ dcalls[1].out.valid

\* the shadow ray of the transmittance version: from its.position, no offset
ShadowRayOf(i) ==
    [origin |-> [at |-> dcalls[1].out.position, by |-> 0],
     direction |-> dcalls[i - 1].out.wi]

\* C11: in the transmittance-based DirectIntegrator::Li, after a primary hit
\* the NEE leg adds bsdfEval * sample.weight * transmittance /
\* lightSampleProbability if and only if the light sample is valid, the
\* direct-light sample is valid, scene.transmittance of the shadow ray cast
\* from its.position without offset up to sample.distance is > 0, and the
\* BSDF evaluation is valid; otherwise the NEE leg adds nothing.
C11_DirectNeeLeg ==
    dVersion = "transmittance" =>
        \A i \in DOMAIN dcalls :
            LET c == dcalls[i]
            IN  /\ c.k = "sampleLight" =>
                      /\ i = 2 /\ PrimaryHit
                      /\ DResultAfter(i) = c.result
                      /\ DNextCall(i) = IF c.out.valid THEN "sampleDirect"
                                        ELSE "sampleBsdf"
                /\ c.k = "sampleDirect" =>
                      /\ i = 3 /\ dcalls[2].out.valid
                      /\ c.arg = dcalls[1].out.position
                      /\ DResultAfter(i) = c.result
                      /\ DNextCall(i) = IF c.out.valid THEN "transmittance"
                                        ELSE "sampleBsdf"
                /\ c.k = "transmittance" =>
                      /\ i = 4 /\ dcalls[3].out.valid
                      /\ c.arg.ray = ShadowRayOf(i)
                      /\ c.arg.tMax = dcalls[3].out.distance
                      /\ DResultAfter(i) = c.result
                      /\ DNextCall(i) = IF c.out.val > 0 THEN "evaluateBsdf"
                                        ELSE "sampleBsdf"
                /\ c.k = "evaluateBsdf" =>
                      /\ i = 5 /\ dcalls[4].out.val > 0
                      /\ c.arg = dcalls[3].out.wi
                      /\ DNextCall(i) = "sampleBsdf"
                      /\ DResultAfter(i) =
                            IF c.out.valid
                            THEN c.result + c.out.val * dcalls[3].out.weight
                                     * dcalls[4].out.val * dLights
                            ELSE c.result
                /\ c.k = "sampleBsdf" =>
                      (c.result # dcalls[1].out.emission * TrOne
                          => i = 6 /\ dcalls[5].out.valid)
                /\ c.k = "shadowIntersect" => FALSE
                /\ (i = 1 /\ c.out.valid) => DNextCall(i) = "sampleLight"

\* the light was seen through a medium of fractional transmittance, one of
\* two lights having been chosen
C11_Witness ==
    /\ dVersion = "transmittance"
    /\ dLights = 2
    /\ Len(dcalls) >= 5
    /\ dcalls[5].k = "evaluateBsdf"
    /\ dcalls[5].out.valid
    /\ dcalls[4].out.val = 1
    /\ dcalls[3].out.distance = Infinity
    /\ DResultAfter(5) = dcalls[5].result + 6

\* the calls of one kind made so far
DCallsOf(kind) == {i \in DOMAIN dcalls : dcalls[i].k = kind}

\* C12: after a primary hit DirectIntegrator::Li samples the hit's BSDF
\* exactly once, whether or not the NEE leg contributed.  A valid sample
\* traces exactly one bounce ray, from its.position in the cited version,
\* and adds bounceSample.weight * (emission of the bounce hit, or background
\* radiance on a miss); nothing is sampled at the bounce hit and no further
\* bounce follows.  An invalid sample adds nothing.
C12_DirectBsdfLeg ==
    /\ Cardinality(DCallsOf("sampleBsdf")) <= 1
    /\ Cardinality(DCallsOf("bounceIntersect")) <= 1
    /\ (dpc = "done" /\ PrimaryHit) => Cardinality(DCallsOf("sampleBsdf")) = 1
    /\ (dpc = "done" /\ ~PrimaryHit) => Len(dcalls) = 1
    /\ \A i \in DOMAIN dcalls :
        LET c == dcalls[i]
        IN  /\ c.k = "sampleBsdf" =>
                  /\ PrimaryHit
                  /\ DResultAfter(i) = c.result
                  /\ DNextCall(i) = IF c.out.valid THEN "bounceIntersect" ELSE "done"
                  /\ ~c.out.valid => (i = Len(dcalls) /\ result = c.result)
            /\ c.k = "bounceIntersect" =>
                  /\ i = Len(dcalls) /\ dpc = "done"
                  /\ dcalls[i - 1].k = "sampleBsdf" /\ dcalls[i - 1].out.valid
                  /\ c.arg.ray.direction = dcalls[i - 1].out.wi
                  /\ c.arg.ray.origin.at = dcalls[1].out.position
                  /\ dVersion = "transmittance" => c.arg.ray.origin.by = 0
                  /\ result = c.result
                                 + dcalls[i - 1].out.weight * c.out.val * TrOne

\* the NEE leg added nothing, the bounce ray left the scene and brought the
\* background in, weighted by the BSDF sample
C12_Witness ==
    /\ dVersion = "transmittance"
    /\ dpc = "done"
    /\ Len(dcalls) = 4
    /\ ~dcalls[2].out.valid
    /\ dcalls[4].k = "bounceIntersect"
    /\ ~dcalls[4].out.valid
    /\ dcalls[4].out.val = 1
    /\ result = dcalls[1].out.emission * TrOne + 2 * TrOne

-----------------------------------------------------------------------------
(* Properties of the shapes *)

ShapeDone(method) == spc = "done" /\ sOp = method

IntersectMethods ==
    {"Sphere::intersect", "TriangleMesh::intersect", "Volume::intersect"}

\* C13: Sphere::intersect, the per-triangle TriangleMesh::intersect and
\* Volume::intersect modify the caller's Intersection only when they return
\* true: whenever one of them returns false, every field of its is as it was
\* before the call.
C13_UntouchedOnFalse ==
    (spc = "done" /\ sOp \in IntersectMethods /\ ~sRet) => sIts = sItsIn

\* a medium event inside the volume was rejected because it lies behind the
\* hit the caller holds
C13_Witness ==
    /\ ShapeDone("Volume::intersect")
    /\ ~sRet
    /\ gotInterval
    /\ tHit < tExit
    /\ tHit > sItsIn.t
    /\ sIts = sItsIn
    /\ sItsIn # NoHitYet

\* the distances at which the ray meets the unit sphere: |o + t d|^2 = 1
SphereRoots ==
    {x \in -(4 * One) .. 4 * One :
        Dot(RayAt(sRay, x), RayAt(sRay, x)) = One * One}

RootsInRange == {x \in SphereRoots : Epsilon <= x /\ x <= sItsIn.t}

\* the ray from (0,0,-2) in direction (0,0,1), no previous hit
ExampleRay ==
    /\ sRay = [origin |-> Vec(0, 0, -2 * One), direction |-> Vec(0, 0, 1)]
    /\ sItsIn = NoHitYet

\* C14: Sphere::intersect reports the smallest root t of the ray/unit-sphere
\* quadratic with Epsilon <= t <= its.t, and returns false exactly when the
\* discriminant is negative or neither root lies in that range; the ray
\* from (0,0,-2) in direction (0,0,1) with no previous hit gets t = 1, the
\* near root, at position (0,0,-1).
C14_SmallestRootInRange ==
    ShapeDone("Sphere::intersect") =>
        /\ sRet = (RootsInRange # {})
        /\ sRet => /\ sIts.t = Min(RootsInRange)
                   /\ sIts.position = RayAt(sRay, sIts.t)
        /\ ExampleRay => /\ sRet
                         /\ sIts.t = One
                         /\ sIts.position = Vec(0, 0, -One)

\* the example ray: both roots, 1 and 3, lie in the range, 1 is reported
C14_Witness ==
    /\ ShapeDone("Sphere::intersect")
    /\ ExampleRay
    /\ RootsInRange = {One, 3 * One}
    /\ sRet
    /\ sIts.t = One

\* u, v and t of the candidate, as fractions over detM
Candidate == Determinants(sShape, sRay)

\* 0 <= num / den <= 1
InUnit(num, den) ==
    IF den > 0 THEN 0 <= num /\ num <= den ELSE 0 >= num /\ num >= den

\* the distance of the candidate
CandidateT == Quot(Candidate.detMt, Candidate.detM)

\* C15: the per-triangle intersection accepts a candidate if and only if the
\* determinant is not degenerate, u is in [0,1], v is in [0,1], u+v <= 1 and
\* Epsilon <= t < its.t; a candidate with t exactly equal to the current
\* its.t is not accepted and does not overwrite the recorded hit.
C15_AcceptsIffStrictlyCloser ==
    ShapeDone("TriangleMesh::intersect") =>
        /\ sRet = (/\ Candidate.detM # 0
                   /\ InUnit(Candidate.detMu, Candidate.detM)
                   /\ InUnit(Candidate.detMv, Candidate.detM)
                   /\ InUnit(Candidate.detMu + Candidate.detMv, Candidate.detM)
                   /\ Epsilon <= CandidateT
                   /\ CandidateT < sItsIn.t)
        /\ (Candidate.detM # 0 /\ CandidateT = sItsIn.t) =>
               (~sRet /\ sIts = sItsIn)

\* C16: every accepted triangle hit assigns its.tangent: the direction of the
\* uv gradient when the uv Jacobian determinant is not zero, and otherwise
\* (degenerate or missing uv) some vector orthogonal to the normal; after a
\* hit the tangent is never the value the Intersection held before the call.
C16_TangentAssigned ==
    (ShapeDone("TriangleMesh::intersect") /\ sRet) =>
        /\ sIts.tangent # sItsIn.tangent
        /\ sIts.tangent.along # Vec(0, 0, 0)
        /\ Dot(sIts.tangent.along, sIts.geometryNormal.along) = 0
        /\ UvDet(sShape.c1, sShape.c2, sShape.c3) # 0 =>
               sIts.tangent = UvGradient(sShape.c1, sShape.c2, sShape.c3)

\* the smaller of two distances
MinOf(x, y) == IF x <= y THEN x ELSE y

\* max(0, min(tExit, tMax) - max(tEntry, 0))
PathLength == MaxOf(0, FSub(MinOf(tExit, sTMax), MaxOf(tEntry, 0)))

\* exp(-sigma * len)
BeerLambert(sigma, len) ==
    ExpNeg(IF len = Infinity THEN Infinity ELSE sigma * len)

\* C17: Volume::transmittance(ray, tMax) attenuates over the path length
\* max(0, min(tExit, tMax) - max(tEntry, 0)), [tEntry, tExit] being the
\* boundary interval, and returns 1 when that length is 0 or the ray misses
\* the bounding shape; without a bounding shape the length is tMax for every
\* tMax >= 0, so that unit density yields exp(-tMax).
C17_BeerLambertOverOverlap ==
    ShapeDone("Volume::transmittance") =>
        /\ gotInterval => sRet = BeerLambert(sShape.m_density, PathLength)
        /\ (~gotInterval \/ PathLength = 0) => sRet = ExpNeg(0)
        /\ (sShape.m_boundary = "none" /\ sTMax >= 0) =>
               /\ PathLength = sTMax
               /\ sRet = BeerLambert(sShape.m_density, sTMax)

\* a shadow ray that ends inside the bounded medium: it enters the sphere at
\* tEntry > 0 and is attenuated from there to tMax only
C17_Witness ==
    /\ ShapeDone("Volume::transmittance")
    /\ gotInterval
    /\ sShape.m_boundary = "sphere"
    /\ tEntry > 0
    /\ tEntry < sTMax
    /\ sTMax < tExit
    /\ sRet = ExpNeg(sShape.m_density * (sTMax - tEntry))

\* the medium event of Volume::intersect, at tEntry + s
MediumEvent == tEntry + sampledDistance(sShape, sU)

\* what Volume::intersect records for an accepted event
MediumHitRecorded ==
    /\ sIts.t = MediumEvent
    /\ sIts.position = RayAt(sRay, MediumEvent)
    /\ sIts.geometryNormal = Normalized(VScale(sRay.direction, -1))
    /\ sIts.shadingNormal = Normalized(VScale(sRay.direction, -1))
    /\ sIts.uv = Vec2(0, 0)

\* C18 as stated: Volume::intersect places the medium event at tEntry + s
\* and rejects it exactly when that value exceeds tExit or exceeds the
\* current its.t; otherwise it records a hit at t = tEntry + s with both
\* normals equal to the negated ray direction and uv = (0,0); a ray that
\* misses the bounding shape never produces a medium hit.
C18_RejectsWhenExceeding ==
    ShapeDone("Volume::intersect") =>
        /\ ~gotInterval => ~sRet
        /\ gotInterval =>
              /\ tHit = MediumEvent
              /\ ~sRet = (MediumEvent > tExit \/ MediumEvent > sItsIn.t)
        /\ sRet => MediumHitRecorded

\* C18, amended: the event is rejected exactly when tEntry + s is greater
\* than or equal to tExit or greater than or equal to the current its.t;
\* the rest as stated.
C18_RejectsWhenNotBefore ==
    ShapeDone("Volume::intersect") =>
        /\ ~gotInterval => ~sRet
        /\ gotInterval =>
              /\ tHit = MediumEvent
              /\ ~sRet = (MediumEvent >= tExit \/ MediumEvent >= sItsIn.t)
        /\ sRet => MediumHitRecorded

\* an event exactly at the distance of the hit the caller holds, inside the
\* interval, was rejected
C18_Witness ==
    /\ ShapeDone("Volume::intersect")
    /\ gotInterval
    /\ MediumEvent = sItsIn.t
    /\ MediumEvent < tExit
    /\ ~sRet

-----------------------------------------------------------------------------
(* Properties of the textures *)

\* the largest integer not above num / den, den > 0
Floor(num, den) ==
    CHOOSE k \in -(4 * Abs(num) + 1) .. 4 * Abs(num) + 1 :
        k * den <= num /\ num < (k + 1) * den

IsEven(n) == \E k \in -(Abs(n)) .. Abs(n) : n = 2 * k

\* floor(u * sx) + floor(v * sy)
CellSum ==
    Floor(txUv.x * texture.m_scale.x, UVDen)
        + Floor(txUv.y * texture.m_scale.y, UVDen)

\* C19: Checkerboard::evaluate returns color0 exactly when floor(u*sx) +
\* floor(v*sy) is even and color1 exactly when it is odd, for every uv, also
\* where the sum of the floored coordinates is negative.
C19_CheckerboardParity ==
    (tpc = "done" /\ txOp = "Checkerboard::evaluate") =>
        /\ txResult = "m_color0" <=> IsEven(CellSum)
        /\ txResult = "m_color1" <=> ~IsEven(CellSum)

\* a cell with a negative odd sum got color1
C19_Witness ==
    /\ tpc = "done" /\ txOp = "Checkerboard::evaluate"
    /\ CellSum < 0
    /\ ~IsEven(CellSum)
    /\ txResult = "m_color1"

\* max(0, min(size - 1, c)) for clamp, the non-negative remainder of c
\* modulo size for repeat
BorderModeOf(border, c, size) ==
    IF border = "Clamp" THEN MaxOf(0, MinOf(size - 1, c)) ELSE c % size

\* C20: ImageTexture applies the border mode to the integer pixel
\* coordinates after rounding or flooring: for every coordinate c, negative
\* or >= size, and size >= 1, clamp yields max(0, min(size-1, c)) and repeat
\* the non-negative remainder of c modulo size; every texel fetched by
\* nearest and by bilinear filtering (all four taps) has both indices within
\* [0, size-1].
C20_TexelsInsideImage ==
    (tpc = "done" /\ txOp = "ImageTexture::evaluate") =>
        /\ \A c \in borderCalls :
              c.out = BorderModeOf(texture.m_border, c.coord, c.size)
        /\ Len(fetched) = IF texture.m_filter = "Nearest" THEN 1 ELSE 4
        /\ \A i \in DOMAIN fetched :
              /\ 0 <= fetched[i].x /\ fetched[i].x <= texture.width - 1
              /\ 0 <= fetched[i].y /\ fetched[i].y <= texture.height - 1

\* bilinear taps around a coordinate left of the image under repeat: the
\* floored coordinate is negative, and not a multiple of the width
C20_Witness ==
    /\ tpc = "done" /\ txOp = "ImageTexture::evaluate"
    /\ texture.m_filter = "Bilinear"
    /\ texture.m_border = "Repeat"
    /\ texture.width = 3
    /\ \E c \in borderCalls :
          c.coord < -1 /\ c.size = 3 /\ c.out = 2
    /\ \E c \in borderCalls : c.coord >= c.size

\* the call evaluated the image at uv = (0.5 / W, 0.5 / H)
AtFirstTexelCentre ==
    /\ tpc = "done" /\ txOp = "ImageTexture::evaluate"
    /\ 2 * txUv.x * texture.width = UVDen
    /\ 2 * txUv.y * texture.height = UVDen

\* C21: for an image of W x H texels, ImageTexture::evaluate at
\* uv = (0.5/W, 0.5/H) returns exactly pixel (0,0) of the stored rows, the
\* top-left texel, times exposure, under nearest and under bilinear
\* filtering.
C21_FirstTexelCentre ==
    AtFirstTexelCentre =>
        txResult.n = Texel(0, 0) * texture.m_exposure * txResult.d

BsdfDone(method) == bpc = "done" /\ bOp = method

\* wo on the inside of a dielectric of ior 1.5, with
\* sin^2(theta_o) > 1 / 1.5^2
InsideBeyondCritical ==
    /\ bsdf.ior = 3
    /\ bWo.z < 0
    /\ 9 * (One * One - bWo.z * bWo.z) > 4 * One * One

\* C22: Dielectric::sample with ior = 1.5 and wo on the inside (wo.z < 0)
\* with sin^2(theta_o) > 1/1.5^2 always takes the total-internal-reflection
\* branch: the returned wi has wi.z of the same sign as wo.z, the weight
\* equals reflectance exactly and no random number is drawn, in both
\* versions of Dielectric.
C22_TotalInternalReflection ==
    (BsdfDone("Dielectric::sample") /\ InsideBeyondCritical) =>
        /\ bSample.wi.z < 0
        /\ bSample.wi.x = -(bWo.x * FP) \div One
        /\ bSample.color = "reflectance"
        /\ bSample.by = Frac(1, 1)
        /\ bDrawn = 0

\* the version that weights by brightness reflected a ray from the inside
\* beyond the critical angle, with a black reflectance and a draw that
\* would have chosen refraction
C22_Witness ==
    /\ BsdfDone("Dielectric::sample") /\ InsideBeyondCritical
    /\ bsdf.variant = "importance"
    /\ bsdf.reflectance = 0 /\ bsdf.transmittance = 2
    /\ bWo = Vec(20, 0, -15)
    /\ bU = 99
    /\ bSample.color = "reflectance"

\* C23: Principled::sample chooses the diffuse lobe with probability
\* pD = meanDiffuse / (meanDiffuse + meanMetallic), pD = 1 when both means
\* are zero, and divides the chosen lobe's weight by that lobe's selection
\* probability; for texture values in [0,1] the divisor is strictly
\* positive: the diffuse lobe is chosen only when pD > 0 and the metallic
\* lobe only when pD < 1.
C23_DivisorPositive ==
    BsdfDone("Principled::sample") =>
        /\ bSample.pD = combine(bsdf, bWo)
        /\ bSample.lobe = "diffuse" =>
              /\ bSample.pD.n > 0
              /\ bSample.divisor = bSample.pD
        /\ bSample.lobe = "metallic" =>
              /\ bSample.pD.n < bSample.pD.d
              /\ bSample.divisor.n = bSample.pD.d - bSample.pD.n
              /\ bSample.divisor.d = bSample.pD.d
        /\ bSample.divisor.n > 0 /\ bSample.divisor.d > 0
        /\ (DiffuseAlbedo(bsdf, PrincipledF(bsdf, bWo)) = 0
              /\ MetallicAlbedo(bsdf, PrincipledF(bsdf, bWo)) = 0)
              => bSample.pD = Frac(1, 1)

\* a black material (both means zero, pD = 1) sampled its diffuse lobe, and
\* a material with pD = 0 its metallic lobe on a draw of exactly 0
C23_Witness ==
    /\ BsdfDone("Principled::sample")
    /\ \/ /\ bsdf.baseColor = 0 /\ bsdf.specular = 0
          /\ bSample.pD = Frac(1, 1)
          /\ bSample.lobe = "diffuse"
          /\ bU = 99
       \/ /\ bSample.pD.n = 0
          /\ bU = 0
          /\ bSample.lobe = "metallic"

\* C25: the single-attempt Instance::intersect of src/src/core/instance.cpp:
\* whenever the call returns false, also when the shape reported a hit that
\* the alpha mask rejected, with or without a transform, every field of the
\* caller's Intersection equals its value before the call.
C25_SingleRestoredOnFalse ==
    (ipc = "done" /\ ~ret) => its = itsIn

\* the n-th surface the retry loop meets on the local ray: the first one at
\* least Epsilon from the origin, each next one at least Epsilon behind the
\* origin advanced by Epsilon past the one before; -1 if there is none
RECURSIVE CandidateFrom(_, _, _)
CandidateFrom(shape, n, lo) ==
    IF n = 1 THEN NearestFrom(shape, lo)
    ELSE IF NearestFrom(shape, lo) = -1 THEN -1
    ELSE CandidateFrom(shape, n - 1, NearestFrom(shape, lo) + 2 * Epsilon)

NthCandidate(n) == CandidateFrom(m_shape, n, Epsilon)

\* the accumulated advance after the first n candidates were skipped: each
\* skipped step plus Epsilon
AdvanceAfter(n) == IF n = 0 THEN 0 ELSE NthCandidate(n) + Epsilon

RetryDone ==
    ipc = "done" /\ op = "intersect" /\ m_transform = NoTransform

OutAt(kind, v) ==
    IF \E i \in DOMAIN calls : calls[i].k = kind /\ calls[i].b = v
    THEN calls[CHOOSE i \in DOMAIN calls :
                   calls[i].k = kind /\ calls[i].b = v].out
    ELSE NoOut

\* the vertices visited: the bounces at which the scene was intersected
Visited == {calls[i].b : i \in {j \in DOMAIN calls : calls[j].k = "intersect"}}

\* emission_v of a hit, background of a miss
EmissionAt(v) == OutAt("intersect", v).val * TrOne

\* the transmittance of the shadow ray of vertex v: the versions that
\* intersect the shadow ray evaluate the BSDF only when it is unoccluded
ShadowTrAt(v) ==
    IF variant = "breakTr" THEN OutAt("transmittance", v).val ELSE TrOne

\* NEE_v = bsdf * lightWeight * transmittance / lightProbability
NeeAt(v) ==
    IF OutAt("evaluateBsdf", v).valid
    THEN OutAt("evaluateBsdf", v).val * OutAt("sampleDirect", v).val
             * ShadowTrAt(v) * numLights
    ELSE 0

\* T_0 = 1 and T_(v+1) = T_v * (BSDF sample weight at vertex v)
RECURSIVE ThroughputAt(_)
ThroughputAt(v) ==
    IF v = 0 THEN 1 ELSE ThroughputAt(v - 1) * OutAt("sampleBsdf", v - 1).val

\* the sum over the visited vertices up to v of T * (emission + NEE)
RECURSIVE RadianceUpTo(_)
RadianceUpTo(v) ==
    IF v \notin Visited THEN 0
    ELSE ThroughputAt(v) * (EmissionAt(v) + NeeAt(v))
             + (IF v = 0 THEN 0 ELSE RadianceUpTo(v - 1))

LastVisited == IF Visited = {} THEN 0 ELSE CHOOSE v \in Visited : v + 1 \notin Visited

\* C27: PathTracer::Li returns L equal to the sum over the visited vertices
\* b of T_b * (emission_b + NEE_b), the background taking the place of the
\* emission at a miss, where T_0 = 1 and T_(b+1) = T_b * (BSDF sample weight
\* at vertex b): emission and NEE of vertex b are scaled by the throughput
\* before that vertex's BSDF weight is applied, and T is multiplied exactly
\* once per continued bounce.
C27_RadianceIsThroughputWeightedSum ==
    ppc = "done" =>
        /\ L = RadianceUpTo(LastVisited)
        /\ T = ThroughputAt(b)
        /\ Visited = {v \in 0..b : variant = "loop" => v < m_maxDepth}

\* a path of two vertices: emission and a light sample at the first, a
\* BSDF weight of 2, and emission at the second
C27_Witness ==
    /\ ppc = "done"
    /\ Visited = {0, 1}
    /\ EmissionAt(0) > 0
    /\ NeeAt(0) > 0
    /\ ThroughputAt(1) = 2
    /\ EmissionAt(1) > 0
    /\ L = EmissionAt(0) + NeeAt(0) + 2 * EmissionAt(1)

\* C28: in the PathTracer whose loop is for (b = 0; b < maxDepth; ++b), the
\* path stops at bounce b = maxDepth - 1 right after adding that vertex's
\* emission: no light is sampled, no shadow ray is cast and no BSDF is
\* sampled at the last vertex.
C28_LoopStopsAfterEmission ==
    variant = "loop" =>
        \A i \in DOMAIN calls :
            calls[i].b = m_maxDepth - 1 => calls[i].k = "intersect"

BothReturned == ppc = "done" /\ dpc = "done"

\* the i-th call of DirectIntegrator::Li is the i-th call of PathTracer::Li
\* and got the same answer
SameCall(i) ==
    /\ i <= Len(calls)
    /\ PathKind(dcalls[i]) = calls[i].k
    /\ SameAnswer(calls[i].k, calls[i].out, dcalls[i].out)

\* C29: with at least one light in the scene, DirectIntegrator::Li (the
\* version that asks for the transmittance of the shadow ray) and
\* PathTracer::Li (the version that breaks at the maximum depth) with
\* depth = 2 and nee = true are the same estimator: on the same primary ray
\* and the same sampler sequence they make the same scene, light and BSDF
\* calls in the same order and return the same radiance.
C29_SameEstimator ==
    /\ \A i \in DOMAIN dcalls : SameCall(i)
    /\ BothReturned => Len(dcalls) = Len(calls) /\ result = L

\* both returned after a bounce that hit an emitter, with light from the
\* light sample and from the primary hit in the radiance
C29_Witness ==
    /\ BothReturned
    /\ Len(dcalls) = 7
    /\ dcalls[7].k = "bounceIntersect"
    /\ dcalls[7].out.valid
    /\ dcalls[5].out.valid
    /\ dcalls[4].out.val = 1
    /\ result = TrOne + 3 * numLights + 2 * TrOne

VolumeDone ==
    spc = "done" /\ sOp \in {"Volume::intersect", "Volume::transmittance"}

\* the first hit of the ray on the boundary
FirstBoundaryHit == SphereIntersectOf(sRay, NoHitYet)

\* the first boundary hit faces the ray: the ray enters from outside
EntersFromOutside ==
    DotSign(FirstBoundaryHit.its.geometryNormal, sRay.direction) < 0

\* C30: whenever Volume::getInterval returns true, 0 <= tEntry < tExit:
\* tEntry = 0 and tExit = Infinity without a bounding shape; tEntry = 0 and
\* tExit = the boundary hit's t when the first boundary hit faces away from
\* the ray; tEntry = the boundary hit's t and tExit > tEntry (Infinity when
\* no exit is found) when the ray enters from outside.  The bounding shape
\* reports hits with t >= Epsilon only.
C30_IntervalOrdered ==
    (VolumeDone /\ gotInterval) =>
        /\ 0 <= tEntry
        /\ tEntry < tExit
        /\ IF sShape.m_boundary = "none"
           THEN tEntry = 0 /\ tExit = Infinity
           ELSE /\ FirstBoundaryHit.ret
                /\ FirstBoundaryHit.its.t >= Epsilon
                /\ IF EntersFromOutside
                   THEN /\ tEntry = FirstBoundaryHit.its.t
                        /\ tExit > tEntry
                        /\ tExit < Infinity =>
                               tExit - tEntry >= Epsilon
                   ELSE tEntry = 0 /\ tExit = FirstBoundaryHit.its.t

\* a ray that enters the bounding sphere from outside and leaves it again
C30_Witness ==
    /\ VolumeDone
    /\ gotInterval
    /\ sShape.m_boundary = "sphere"
    /\ EntersFromOutside
    /\ tEntry >= Epsilon
    /\ tExit < Infinity
    /\ tExit - tEntry < tEntry

\* worker w before its call of Li, with its Sampler as it was handed over
AtCall(w) ==
    View(NewFrame, [samplers[w] EXCEPT !.index = 0], NoIntersection)

=========================================================================
